---- MODULE Spec2Model ----
(***************************************************************************)
(* State-machine model of the input abstraction and the e-paper drivers    *)
(* of pizero-eink-apps.                                                    *)
(*                                                                         *)
(*   SpecInput : display/button_input.py, ButtonInputHandler: the          *)
(*               gpiozero edge-callback thread, the long-press monitor     *)
(*               thread(s) and the application thread calling              *)
(*               start()/stop(), one tick being 100 ms; and                *)
(*               display/touch_handler.py, TouchHandler: the polling       *)
(*               thread(s) and the application thread, one tick being      *)
(*               10 ms.                                                    *)
(*   SpecEPD   : TP_lib/epd2in13_V3.py and TP_lib/epd2in13_V4.py, class    *)
(*               EPD: one driver object and the application calling its    *)
(*               methods one at a time, each method a program of           *)
(*               transport operations (GPIO writes, SPI writes, sleeps,    *)
(*               polls of the busy line) executed one per step, any of     *)
(*               which may raise.                                          *)
(*                                                                         *)
(* Python statements are modelled one shared-memory access per step, and   *)
(* every interleaving of the threads' steps is explored.  Time is          *)
(* discrete: a statement takes no time at the clock's resolution; time     *)
(* passes only while every thread is blocked (time.sleep, Thread.join, a   *)
(* user callback that takes long, no pending edge).                        *)
(***************************************************************************)
EXTENDS Integers, Sequences, FiniteSets, TLC

None == -1

Min(a, b) == IF a < b THEN a ELSE b

(***************************************************************************)
(* Program constants of ButtonInputHandler, in ticks of 100 ms.            *)
(***************************************************************************)
LongPressThreshold == 20
PollTicks == 1
JoinTicks == 10
BounceTicks == 1

(***************************************************************************)
(* Bounds of the model.                                                    *)
(***************************************************************************)
MaxThreads == 2
MaxQueue == 2
AgeCap == 21
MaxCount == 2
MaxPresses == 3

Threads == 1..MaxThreads

VARIABLES
    \* ---- ButtonInputHandler fields
    running,              \* self.running
    is_active,            \* self._is_active
    press_start_time,     \* None, or the ticks elapsed since the stored time.time()
    long_press_triggered, \* self.long_press_triggered
    monitoring_thread,    \* None, or the thread self.monitoring_thread refers to
    \* ---- the gpiozero Button and its callback thread
    pressed,              \* button.is_pressed (the line's level)
    sinceEdge,            \* ticks since the last level change, capped at BounceTicks
    queue,                \* edges detected and not yet dispatched
    e_pc, e_dur,          \* callback thread: position, local `duration`
    \* ---- monitor threads (_monitor_long_press)
    m_pc, m_dur, m_sleep,
    \* ---- application thread: position, remaining join timeout
    a_pc, a_join,
    \* ---- user callbacks: whether they may take longer than a tick
    cb_slow,
    \* ---- observation of the current press-release cycle
    n_short, n_long, cyc_phase, cyc_ok, rel_dur

hVars == <<running, is_active, press_start_time, long_press_triggered,
           monitoring_thread>>
pVars == <<pressed, sinceEdge, queue>>
eVars == <<e_pc, e_dur>>
mVars == <<m_pc, m_dur, m_sleep>>
aVars == <<a_pc, a_join>>
gVars == <<n_short, n_long, cyc_phase, cyc_ok, rel_dur>>

btnVars == <<hVars, pVars, eVars, mVars, aVars, gVars, cb_slow>>

\* ---- TouchHandler (display/touch_handler.py); one tick is 10 ms there
VARIABLES
    t_running,            \* self._running
    t_flag,               \* self._flag[0]
    t_thread,             \* None, or the thread self._thread refers to
    Touch,                \* gt_dev.Touch
    on_error,             \* "default" (_default_error_handler) or "user"
    t_pc, t_sleep,        \* polling threads (_irq_loop)
    ta_pc, ta_join,       \* application thread: position, remaining join timeout
    t_slow                \* whether the pin read and on_error may take long

tchVars == <<t_running, t_flag, t_thread, Touch, on_error, t_pc, t_sleep,
             ta_pc, ta_join, t_slow>>

\* ---- EPD (TP_lib/epd2in13_V3.py, TP_lib/epd2in13_V4.py)
VARIABLES
    drv,                  \* "V3" or "V4": the class the driver object is of
    HW_AVAILABLE,         \* whether spidev and RPi.GPIO were imported
    mock_mode,            \* self.mock_mode (V3)
    spi,                  \* self.spi: "unset", "None", or a handle "open" or "closed"
    gpio,                 \* the GPIO channels: "unset", "setup" or "cleaned"
    phase,                \* the panel state the calls so far have left
    dc, cs,               \* levels of the DC and CS pins
    call,                 \* "idle", or the method the application is in
    arg,                  \* its argument: [n: mode or color, buf: image buffer]
    ip,                   \* position in the method's program
    w_pc, w_elapsed,      \* inside a wait: position, sleeps since `timeout` was set
    log,                  \* what the panel's lines carried during this call
    ret                   \* "pending", or how the call ended

epdVars == <<drv, HW_AVAILABLE, mock_mode, spi, gpio, phase, dc, cs, call, arg,
             ip, w_pc, w_elapsed, log, ret>>

\* ---- GT1151 (TP_lib/gt1151.py)
VARIABLES
    GT_HW_AVAILABLE,      \* whether smbus2 and RPi.GPIO were imported
    g_mock,               \* self.mock_mode
    bus,                  \* self.bus: "unset", "None" or "open"
    i2c_addr,             \* self.i2c_addr
    scan_dir,             \* self.scan_dir
    gt_dev,               \* self.gt_dev: [Touch, X, Y], the current frame
    gt_old,               \* self.gt_old: [Touch, X, Y], the previous frame
    g_call,               \* "idle", or the method the application is in
    g_arg,                \* its argument: mock_mode or scan_dir
    g_pc,                 \* position in the method
    touch_count,          \* the local touch_count of read_touch
    g_before,             \* gt_dev as it was when the call began
    g_log,                \* the bus and GPIO operations of this call
    g_ret                 \* [st: "pending", "returned" or "raised", and the value]

gtVars == <<GT_HW_AVAILABLE, g_mock, bus, i2c_addr, scan_dir, gt_dev, gt_old,
            g_call, g_arg, g_pc, touch_count, g_before, g_log, g_ret>>

\* ---- create_input_handler (display/input_handler.py)
VARIABLES
    f_in,                 \* the arguments of a call of create_input_handler
    f_out                 \* the handler it returned, or none yet

facVars == <<f_in, f_out>>

\* ---- menu_button.py: module globals, and the locals of its three threads
VARIABLES
    current_selection,    \* index into APPS of the highlighted item
    button_press_start,   \* None, or the age of the stored time.time()
    hold_processed,
    launch_requested,
    launch_app_index,
    in_app,
    main_pc,              \* main thread: position
    app_to_launch,        \* main thread: None, or the index of the app it runs
    hold_pc,              \* monitor thread: position
    hold_is_pressed,      \* monitor thread: local is_pressed
    hold_duration,        \* monitor thread: local hold_duration, as an age
    detected_selection,   \* None, or current_selection when the hold was detected
    edge_pc,              \* gpiozero thread: position
    released_after,       \* gpiozero thread: local hold_duration, as an age
    pisugar_pressed,      \* pisugar_button.is_pressed
    pisugar_queue,        \* edges detected and not yet dispatched
    presses               \* how many times the button has gone down

menuVars == <<current_selection, button_press_start, hold_processed,
              launch_requested, launch_app_index, in_app,
              main_pc, app_to_launch, hold_pc, hold_is_pressed, hold_duration,
              detected_selection, edge_pc, released_after, pisugar_pressed,
              pisugar_queue, presses>>

\* ---- which object a behaviour exercises
VARIABLES which

notBtn == <<tchVars, epdVars, gtVars, facVars, menuVars, which>>
notTch == <<btnVars, epdVars, gtVars, facVars, menuVars, which>>

vars == <<btnVars, tchVars, epdVars, gtVars, facVars, menuVars, which>>

(***************************************************************************)
(* ButtonInputHandler.__init__                                             *)
(***************************************************************************)
ButtonInit ==
    /\ running = FALSE
    /\ is_active = FALSE
    /\ press_start_time = None
    /\ long_press_triggered = FALSE
    /\ monitoring_thread = None
    /\ pressed = FALSE
    /\ sinceEdge = BounceTicks
    /\ queue = <<>>
    /\ e_pc = "idle"
    /\ e_dur = 0
    /\ m_pc = [i \in Threads |-> "none"]
    /\ m_dur = [i \in Threads |-> 0]
    /\ m_sleep = [i \in Threads |-> 0]
    /\ a_pc = "idle"
    /\ a_join = 0
    /\ cb_slow \in BOOLEAN
    /\ n_short = 0
    /\ n_long = 0
    /\ cyc_phase = "none"
    /\ cyc_ok = FALSE
    /\ rel_dur = "none"

(***************************************************************************)
(* TouchHandler.__init__, lines 63-69                                      *)
(***************************************************************************)
TouchInit ==
    /\ t_running = FALSE
    /\ t_flag = 1
    /\ t_thread = None
    /\ Touch = 0
    /\ on_error \in {"default", "user"}
    /\ t_pc = [i \in Threads |-> "none"]
    /\ t_sleep = [i \in Threads |-> 0]
    /\ ta_pc = "idle"
    /\ ta_join = 0
    /\ t_slow \in BOOLEAN

(* the part of the state a specification leaves alone *)
ButtonQuiet == ButtonInit /\ cb_slow = FALSE
TouchQuiet == TouchInit /\ on_error = "default" /\ t_slow = FALSE

Alive(i) == i # None /\ m_pc[i] \notin {"none", "crashed", "cb_crashed"}

Age(t) == Min(t + 1, AgeCap)

(* how a measured duration compares with the threshold and the poll interval *)
DurClass(d) ==
    IF d < LongPressThreshold THEN "short"
    ELSE IF d < LongPressThreshold + PollTicks THEN "gap" ELSE "long"


(***************************************************************************)
(* The button: the line's level changes at most once per debounce          *)
(* interval (bounce_time), and each change is queued for the callback      *)
(* thread, which runs when_pressed / when_released one at a time.          *)
(***************************************************************************)
PhysPress ==
    /\ which = "button"
    /\ ~pressed
    /\ sinceEdge >= BounceTicks
    /\ Len(queue) < MaxQueue
    /\ pressed' = TRUE
    /\ sinceEdge' = 0
    /\ queue' = Append(queue, "press")
    /\ UNCHANGED <<hVars, eVars, mVars, aVars, gVars, cb_slow, notBtn>>

PhysRelease ==
    /\ which = "button"
    /\ pressed
    /\ sinceEdge >= BounceTicks
    /\ Len(queue) < MaxQueue
    /\ pressed' = FALSE
    /\ sinceEdge' = 0
    /\ queue' = Append(queue, "release")
    /\ UNCHANGED <<hVars, eVars, mVars, aVars, gVars, cb_slow, notBtn>>

Dispatch ==
    /\ which = "button"
    /\ e_pc = "idle"
    /\ queue # <<>>
    /\ e_pc' = IF Head(queue) = "press" THEN "p_start" ELSE "r_check"
    /\ queue' = Tail(queue)
    /\ UNCHANGED <<hVars, pressed, sinceEdge, e_dur, mVars, aVars, gVars,
                   cb_slow, notBtn>>

(***************************************************************************)
(* _on_button_pressed, line 83: self.press_start_time = time.time()        *)
(***************************************************************************)
PressStart ==
    /\ which = "button"
    /\ e_pc = "p_start"
    /\ press_start_time' = 0
    /\ e_pc' = "p_latch"
    /\ n_short' = 0
    /\ n_long' = 0
    /\ rel_dur' = "none"
    /\ cyc_phase' = "held"
    /\ cyc_ok' = running
    /\ UNCHANGED <<running, is_active, long_press_triggered, monitoring_thread,
                   pVars, e_dur, mVars, aVars, cb_slow, notBtn>>

(* _on_button_pressed, line 84: self.long_press_triggered = False *)
PressLatch ==
    /\ which = "button"
    /\ e_pc = "p_latch"
    /\ long_press_triggered' = FALSE
    /\ e_pc' = "idle"
    /\ UNCHANGED <<running, is_active, press_start_time, monitoring_thread,
                   pVars, e_dur, mVars, aVars, gVars, cb_slow, notBtn>>

(***************************************************************************)
(* _on_button_released, lines 89-93: the None check, the duration, and     *)
(* the clearing of press_start_time.                                       *)
(***************************************************************************)
ReleaseCheck ==
    /\ which = "button"
    /\ e_pc = "r_check"
    /\ e_pc' = IF press_start_time = None THEN "idle" ELSE "r_dur"
    /\ UNCHANGED <<hVars, pVars, e_dur, mVars, aVars, gVars, cb_slow, notBtn>>

ReleaseDuration ==
    /\ which = "button"
    /\ e_pc = "r_dur"
    /\ e_dur' = press_start_time
    /\ rel_dur' = DurClass(press_start_time)
    /\ e_pc' = "r_clear"
    /\ UNCHANGED <<hVars, pVars, mVars, aVars, n_short, n_long, cyc_phase,
                   cyc_ok, cb_slow, notBtn>>

ReleaseClear ==
    /\ which = "button"
    /\ e_pc = "r_clear"
    /\ press_start_time' = None
    /\ e_pc' = "r_latch"
    /\ UNCHANGED <<running, is_active, long_press_triggered, monitoring_thread,
                   pVars, e_dur, mVars, aVars, gVars, cb_slow, notBtn>>

(***************************************************************************)
(* _on_button_released, lines 98-107: return if the latch is set; else     *)
(* call on_short_press if duration < long_press_threshold.                 *)
(***************************************************************************)
ShortPressDue(latch, duration) == ~latch /\ duration < LongPressThreshold

ReleaseLatch ==
    /\ which = "button"
    /\ e_pc = "r_latch"
    /\ IF ShortPressDue(long_press_triggered, e_dur)
         THEN /\ e_pc' = "r_incb"
              /\ n_short' = Min(n_short + 1, MaxCount)
              /\ UNCHANGED cyc_phase
         ELSE /\ e_pc' = "idle"
              /\ cyc_phase' = "released"
              /\ UNCHANGED n_short
    /\ e_dur' = 0
    /\ UNCHANGED <<hVars, pVars, mVars, aVars, n_long, cyc_ok, rel_dur, cb_slow, notBtn>>

(* where the callback thread is after on_short_press(), lines 104-109, *)
(* returned or raised: `except Exception` catches what it raises.      *)
AfterShortPress(outcome) == "idle"

ShortReturn ==
    /\ which = "button"
    /\ e_pc = "r_incb"
    /\ \E outcome \in {"return", "raise"} : e_pc' = AfterShortPress(outcome)
    /\ cyc_phase' = "released"
    /\ UNCHANGED <<hVars, pVars, e_dur, mVars, aVars, n_short, n_long, cyc_ok,
                   rel_dur, cb_slow, notBtn>>

(***************************************************************************)
(* _monitor_long_press, one step per statement that reads or writes a      *)
(* shared field.                                                           *)
(***************************************************************************)
monFrame == <<running, is_active, press_start_time, monitoring_thread,
              pVars, eVars, aVars, n_short, cyc_phase, cyc_ok, rel_dur, cb_slow, notBtn>>

(* line 113: while self.running, evaluated by a thread that has just *)
(* started or whose time.sleep(0.1) of line 128 has elapsed          *)
MonLoop(i) ==
    /\ which = "button"
    /\ m_pc[i] = "loop" \/ (m_pc[i] = "sleep" /\ m_sleep[i] = 0)
    /\ m_pc' = [m_pc EXCEPT ![i] = IF running THEN "check" ELSE "none"]
    /\ UNCHANGED <<long_press_triggered, m_dur, m_sleep, n_long>>
    /\ UNCHANGED monFrame

(* line 114: if self.press_start_time is not None and not self.long_press_triggered *)
MonCheck(i) ==
    /\ which = "button"
    /\ m_pc[i] = "check"
    /\ IF press_start_time # None /\ ~long_press_triggered
         THEN m_pc' = [m_pc EXCEPT ![i] = "dur"] /\ UNCHANGED m_sleep
         ELSE /\ m_pc' = [m_pc EXCEPT ![i] = "sleep"]
              /\ m_sleep' = [m_sleep EXCEPT ![i] = PollTicks]
    /\ UNCHANGED <<long_press_triggered, m_dur, n_long>>
    /\ UNCHANGED monFrame

(* line 115: duration = time.time() - self.press_start_time; a None *)
(* operand raises TypeError, which nothing in the loop catches.     *)
MonDuration(i) ==
    /\ which = "button"
    /\ m_pc[i] = "dur"
    /\ IF press_start_time = None
         THEN m_pc' = [m_pc EXCEPT ![i] = "crashed"] /\ UNCHANGED m_dur
         ELSE /\ m_pc' = [m_pc EXCEPT ![i] = "cond"]
              /\ m_dur' = [m_dur EXCEPT ![i] = press_start_time]
    /\ UNCHANGED <<long_press_triggered, m_sleep, n_long>>
    /\ UNCHANGED monFrame

LongPressDue_NoThreshold(duration, is_pressed) == is_pressed

(* line 118: duration >= self.long_press_threshold and self.button.is_pressed *)
LongPressDue(duration, is_pressed) ==
    duration >= LongPressThreshold /\ is_pressed

MonCond(i) ==
    /\ which = "button"
    /\ m_pc[i] = "cond"
    /\ IF LongPressDue(m_dur[i], pressed)
         THEN m_pc' = [m_pc EXCEPT ![i] = "set"] /\ UNCHANGED m_sleep
         ELSE /\ m_pc' = [m_pc EXCEPT ![i] = "sleep"]
              /\ m_sleep' = [m_sleep EXCEPT ![i] = PollTicks]
    /\ m_dur' = [m_dur EXCEPT ![i] = 0]
    /\ UNCHANGED <<long_press_triggered, n_long>>
    /\ UNCHANGED monFrame

(* line 119: self.long_press_triggered = True *)
MonSet(i) ==
    /\ which = "button"
    /\ m_pc[i] = "set"
    /\ long_press_triggered' = TRUE
    /\ m_pc' = [m_pc EXCEPT ![i] = "call"]
    /\ UNCHANGED <<m_dur, m_sleep, n_long>>
    /\ UNCHANGED monFrame

(* lines 122-124: self.on_long_press() is entered *)
MonCall(i) ==
    /\ which = "button"
    /\ m_pc[i] = "call"
    /\ n_long' = Min(n_long + 1, MaxCount)
    /\ m_pc' = [m_pc EXCEPT ![i] = "incb"]
    /\ UNCHANGED <<long_press_triggered, m_dur, m_sleep>>
    /\ UNCHANGED monFrame

(* where the monitor is after on_long_press(), lines 122-126, returned *)
(* or raised: `except Exception` catches what it raises, and the loop  *)
(* goes on to line 128.                                                *)
AfterLongPress(outcome) == "sleep"

MonReturn(i) ==
    /\ which = "button"
    /\ m_pc[i] = "incb"
    /\ \E outcome \in {"return", "raise"} :
         m_pc' = [m_pc EXCEPT ![i] = AfterLongPress(outcome)]
    /\ m_sleep' = [m_sleep EXCEPT ![i] = PollTicks]
    /\ UNCHANGED <<long_press_triggered, m_dur, n_long>>
    /\ UNCHANGED monFrame

(***************************************************************************)
(* ButtonInputHandler.start, lines 139-153.  The new thread takes the      *)
(* lowest free slot of the model.  a_pc records which way the call went    *)
(* until it returns to the caller.                                         *)
(***************************************************************************)
FreeSlots == {i \in Threads : ~Alive(i)}

AlreadyRunning_Never(flag) == FALSE

(* line 141 (and touch_handler.py line 81): if self.running: ... return *)
AlreadyRunning(flag) == flag

BtnStart ==
    /\ which = "button"
    /\ a_pc = "idle"
    /\ IF AlreadyRunning(running)
         THEN /\ a_pc' = "start_noop"
              /\ UNCHANGED <<running, is_active, monitoring_thread, m_pc>>
         ELSE /\ FreeSlots # {}
              /\ LET i == CHOOSE j \in FreeSlots : \A k \in FreeSlots : j <= k IN
                   /\ monitoring_thread' = i
                   /\ m_pc' = [m_pc EXCEPT ![i] = "loop"]
              /\ running' = TRUE
              /\ is_active' = TRUE
              /\ a_pc' = "started"
    /\ UNCHANGED <<press_start_time, long_press_triggered, pVars, eVars,
                   m_dur, m_sleep, a_join, gVars, cb_slow, notBtn>>

(***************************************************************************)
(* ButtonInputHandler.stop, lines 155-161: the flags are cleared, then the *)
(* thread is joined with a timeout of 1 s.                                 *)
(***************************************************************************)
BtnStop ==
    /\ which = "button"
    /\ a_pc = "idle"
    /\ running' = FALSE
    /\ is_active' = FALSE
    /\ cyc_ok' = FALSE
    /\ IF monitoring_thread # None
         THEN a_pc' = "join" /\ a_join' = JoinTicks
         ELSE a_pc' = "stopped" /\ UNCHANGED a_join
    /\ UNCHANGED <<press_start_time, long_press_triggered, monitoring_thread,
                   pVars, eVars, mVars, n_short, n_long, cyc_phase,
                   rel_dur, cb_slow, notBtn>>

JoinOutcome_RaisesOnTimeout(alive) == IF alive THEN "stop_raised" ELSE "stopped"

(* how Thread.join(timeout=1.0) ends, line 160 (touch_handler.py line 107): *)
(* it returns None whether or not the thread has ended.                     *)
JoinOutcome(alive) == IF alive THEN "stopped_timeout" ELSE "stopped"

(* Thread.join(timeout=1.0) returns: the thread has ended or 1 s has passed *)
BtnJoinReturn ==
    /\ which = "button"
    /\ a_pc = "join"
    /\ ~Alive(monitoring_thread) \/ a_join = 0
    /\ a_pc' = JoinOutcome(Alive(monitoring_thread))
    /\ a_join' = 0
    /\ UNCHANGED <<hVars, pVars, eVars, mVars, gVars, cb_slow, notBtn>>

(* start() or stop() returns to the application *)
BtnReturn ==
    /\ which = "button"
    /\ a_pc \in {"started", "start_noop", "stopped", "stopped_timeout"}
    /\ a_pc' = "idle"
    /\ UNCHANGED <<hVars, pVars, eVars, mVars, a_join, gVars, cb_slow, notBtn>>

(***************************************************************************)
(* 100 ms pass.  Every thread is blocked: the monitors in time.sleep or in *)
(* a long callback, the callback thread waiting for an edge or in a long   *)
(* callback, the application outside start/stop or inside join.            *)
(***************************************************************************)
MonBlocked(i) ==
    \/ ~Alive(i)
    \/ m_pc[i] = "sleep" /\ m_sleep[i] > 0
    \/ m_pc[i] = "incb" /\ cb_slow

EdgeBlocked ==
    \/ e_pc = "idle" /\ queue = <<>>
    \/ e_pc = "r_incb" /\ cb_slow

AppBlocked ==
    \/ a_pc = "idle"
    \/ a_pc = "join" /\ a_join > 0 /\ Alive(monitoring_thread)

BtnTick ==
    /\ which = "button"
    /\ \A i \in Threads : MonBlocked(i)
    /\ EdgeBlocked
    /\ AppBlocked
    /\ press_start_time' = IF press_start_time = None THEN None
                           ELSE Age(press_start_time)
    /\ sinceEdge' = Min(sinceEdge + 1, BounceTicks)
    /\ m_sleep' = [i \in Threads |-> IF m_sleep[i] > 0 THEN m_sleep[i] - 1 ELSE 0]
    /\ a_join' = IF a_pc = "join" THEN a_join - 1 ELSE a_join
    /\ UNCHANGED <<running, is_active, long_press_triggered, monitoring_thread,
                   pressed, queue, eVars, m_pc, m_dur, a_pc, gVars, cb_slow,
                   notBtn>>

(***************************************************************************)
(* TouchHandler._irq_loop, lines 150-164.  One tick is 10 ms (interval).   *)
(***************************************************************************)
TchPollTicks == 1
TchJoinTicks == 100

TAlive(i) == i # None /\ t_pc[i] \notin {"none", "cb_crashed"}

tchFrame == <<t_running, t_flag, t_thread, on_error, ta_pc, ta_join, t_slow,
              notTch>>

(* line 155: while self._flag[0] == 1 and self._running, evaluated by a *)
(* thread that has just started or whose time.sleep(self.interval) of   *)
(* line 164 has elapsed                                                 *)
TchLoop(i) ==
    /\ which = "touch"
    /\ t_pc[i] = "loop" \/ (t_pc[i] = "sleep" /\ t_sleep[i] = 0)
    /\ t_pc' = [t_pc EXCEPT ![i] = IF t_flag = 1 /\ t_running THEN "read" ELSE "none"]
    /\ UNCHANGED <<Touch, t_sleep>>
    /\ UNCHANGED tchFrame

(* lines 157-160: gt.digital_read(gt.INT) answers 0 (low) or 1, or raises *)
TchRead(i) ==
    /\ which = "touch"
    /\ t_pc[i] = "read"
    /\ \E r \in {"low", "high", "raise"} :
         IF r = "raise"
           THEN t_pc' = [t_pc EXCEPT ![i] = "err"] /\ UNCHANGED <<Touch, t_sleep>>
           ELSE /\ Touch' = IF r = "low" THEN 1 ELSE 0
                /\ t_pc' = [t_pc EXCEPT ![i] = "sleep"]
                /\ t_sleep' = [t_sleep EXCEPT ![i] = TchPollTicks]
    /\ UNCHANGED tchFrame

(* where _irq_loop is after self.on_error(e), line 162, returned or raised: *)
(* the call stands in an except clause, so what it raises leaves the loop.  *)
AfterOnError(outcome) == IF outcome = "raise" THEN "cb_crashed" ELSE "sleep"

(* lines 161-162: except Exception as e: self.on_error(e) *)
TchError(i) ==
    /\ which = "touch"
    /\ t_pc[i] = "err"
    /\ \E outcome \in (IF on_error = "user" THEN {"return", "raise"} ELSE {"return"}) :
         t_pc' = [t_pc EXCEPT ![i] = AfterOnError(outcome)]
    /\ t_sleep' = [t_sleep EXCEPT ![i] = TchPollTicks]
    /\ UNCHANGED Touch
    /\ UNCHANGED tchFrame

(***************************************************************************)
(* TouchHandler.start, lines 81-89                                         *)
(***************************************************************************)
TFreeSlots == {i \in Threads : ~TAlive(i)}

TchStart ==
    /\ which = "touch"
    /\ ta_pc = "idle"
    /\ IF AlreadyRunning(t_running)
         THEN /\ ta_pc' = "start_noop"
              /\ UNCHANGED <<t_running, t_flag, t_thread, t_pc>>
         ELSE /\ TFreeSlots # {}
              /\ LET i == CHOOSE j \in TFreeSlots : \A k \in TFreeSlots : j <= k IN
                   /\ t_thread' = i
                   /\ t_pc' = [t_pc EXCEPT ![i] = "loop"]
              /\ t_running' = TRUE
              /\ t_flag' = 1
              /\ ta_pc' = "started"
    /\ UNCHANGED <<Touch, on_error, t_sleep, ta_join, t_slow, notTch>>

(***************************************************************************)
(* TouchHandler.stop, lines 100-111                                        *)
(***************************************************************************)
TchStop ==
    /\ which = "touch"
    /\ ta_pc = "idle"
    /\ IF ~t_running
         THEN /\ ta_pc' = "stop_noop"
              /\ UNCHANGED <<t_running, t_flag, ta_join>>
         ELSE /\ t_running' = FALSE
              /\ t_flag' = 0
              /\ IF t_thread # None
                   THEN ta_pc' = "join" /\ ta_join' = TchJoinTicks
                   ELSE ta_pc' = "stopped" /\ UNCHANGED ta_join
    /\ UNCHANGED <<t_thread, Touch, on_error, t_pc, t_sleep, t_slow,
                   notTch>>

(* self._thread.join(timeout=1.0) returns; is_alive() only decides a warning *)
TchJoinReturn ==
    /\ which = "touch"
    /\ ta_pc = "join"
    /\ ~TAlive(t_thread) \/ ta_join = 0
    /\ ta_pc' = JoinOutcome(TAlive(t_thread))
    /\ ta_join' = 0
    /\ UNCHANGED <<t_running, t_flag, t_thread, Touch, on_error, t_pc, t_sleep,
                   t_slow, notTch>>

(* start() or stop() returns to the application *)
TchReturn ==
    /\ which = "touch"
    /\ ta_pc \in {"started", "start_noop", "stop_noop", "stopped", "stopped_timeout"}
    /\ ta_pc' = "idle"
    /\ UNCHANGED <<t_running, t_flag, t_thread, Touch, on_error, t_pc, t_sleep,
                   ta_join, t_slow, notTch>>

(***************************************************************************)
(* 10 ms pass: every thread is blocked, the polling threads in time.sleep, *)
(* in a pin read or in an on_error that takes long.                        *)
(***************************************************************************)
TchBlocked(i) ==
    \/ ~TAlive(i)
    \/ t_pc[i] = "sleep" /\ t_sleep[i] > 0
    \/ t_pc[i] \in {"read", "err"} /\ t_slow

TchTick ==
    /\ which = "touch"
    /\ \A i \in Threads : TchBlocked(i)
    /\ \/ ta_pc = "idle"
       \/ ta_pc = "join" /\ ta_join > 0 /\ TAlive(t_thread)
    /\ t_sleep' = [i \in Threads |-> IF t_sleep[i] > 0 THEN t_sleep[i] - 1 ELSE 0]
    /\ ta_join' = IF ta_pc = "join" THEN ta_join - 1 ELSE ta_join
    /\ UNCHANGED <<t_running, t_flag, t_thread, Touch, on_error, t_pc, ta_pc,
                   t_slow, notTch>>

(***************************************************************************)
(* EPD, the e-paper driver.  A byte list is held as [len, base, step]:     *)
(* byte i, counted from 0, is (base + step * i) % 256; a list of one       *)
(* repeated byte has step 0.                                               *)
(***************************************************************************)
WIDTH == 122
HEIGHT == 250
FULL_UPDATE == 0
PART_UPDATE == 1

(* _wait_until_idle, line 177: the 10 s timeout, counted in the 0.01 s *)
(* sleeps of line 179                                                  *)
WaitTimeoutTicks == 1000

ByteAt(p, i) == (p.base + p.step * i) % 256

NoPayload == [len |-> 0, base |-> 0, step |-> 0]

(* [b] *)
One(b) == [len |-> 1, base |-> b, step |-> 0]

(* [b] * n *)
Repeat(b, n) == [len |-> n, base |-> b, step |-> 0]

(* the image buffers the application passes: a framebuffer of 16 * 250 *)
(* bytes (getbuffer) or a short list, blank or patterned               *)
BufLens == {3, 4000}
Buffers == {[len |-> n, base |-> b, step |-> st] :
              n \in BufLens, b \in {\HFF}, st \in {0, 7}}
Colors == {\H00, \HFF}
Modes == {FULL_UPDATE, PART_UPDATE}

(***************************************************************************)
(* The transport operations a method performs, in program order.           *)
(***************************************************************************)
DigitalWrite(pin, value) == [op |-> "gpio", s |-> pin, v |-> value, p |-> NoPayload]
SpiWrite(data) == [op |-> "spi", s |-> "", v |-> 0, p |-> data]
Sleep(ms) == [op |-> "sleep", s |-> "", v |-> ms, p |-> NoPayload]
Return(value) == [op |-> "return", s |-> value, v |-> 0, p |-> NoPayload]

(* _reset, lines 133-138 *)
Reset ==
    << DigitalWrite("RST", 1), Sleep(200),
       DigitalWrite("RST", 0), Sleep(2),
       DigitalWrite("RST", 1), Sleep(200) >>

(* _send_command, lines 145-148 (V4 send_command, lines 33-36) *)
SendCommand(command) ==
    << DigitalWrite("DC", 0), DigitalWrite("CS", 0), SpiWrite(One(command)),
       DigitalWrite("CS", 1) >>

(* _send_data, lines 155-158 *)
SendData(data) ==
    << DigitalWrite("DC", 1), DigitalWrite("CS", 0), SpiWrite(One(data)),
       DigitalWrite("CS", 1) >>

(* _send_data_bulk, lines 165-168 (V4 send_data2, lines 45-48) *)
SendDataBulk(data) ==
    << DigitalWrite("DC", 1), DigitalWrite("CS", 0), SpiWrite(data),
       DigitalWrite("CS", 1) >>

(* _wait_until_idle, lines 176-183, as one operation of the program; its *)
(* loop is stepped by the Wait actions below                             *)
WaitUntilIdle == << [op |-> "wait", s |-> "", v |-> 0, p |-> NoPayload] >>

(* V4 ReadBusy, lines 50-52 *)
ReadBusy == << [op |-> "readbusy", s |-> "", v |-> 0, p |-> NoPayload] >>

(* _init_full, lines 213-254 *)
InitFull ==
    SendCommand(\H12) \o WaitUntilIdle
    \o SendCommand(\H01) \o SendData(\HF9) \o SendData(\H00) \o SendData(\H00)
    \o SendCommand(\H11) \o SendData(\H03)
    \o SendCommand(\H44) \o SendData(\H00) \o SendData(\H0F)
    \o SendCommand(\H45) \o SendData(\HF9) \o SendData(\H00) \o SendData(\H00)
       \o SendData(\H00)
    \o SendCommand(\H3C) \o SendData(\H03)
    \o SendCommand(\H2C) \o SendData(\H55)
    \o SendCommand(\H03) \o SendData(\H15)
    \o SendCommand(\H04) \o SendData(\H41) \o SendData(\HA8) \o SendData(\H32)
    \o SendCommand(\H3A) \o SendData(\H30)
    \o SendCommand(\H3B) \o SendData(\H0A)
    \o WaitUntilIdle

(* _init_part, lines 264-272 *)
lut_vcom_dc ==
    << \H00, \H00, \H00, \H00, \H00, \H00, \H00,
       \H00, \H00, \H00, \H00, \H00, \H00, \H00,
       \H00, \H01, \H20, \H20, \H00, \H00, \H01,
       \H00, \H00, \H00, \H00, \H00, \H00, \H00,
       \H00, \H00, \H00, \H00, \H00, \H00, \H00,
       \H00, \H00, \H00, \H00, \H00, \H00, \H00,
       \H00, \H00, \H00, \H00, \H00, \H00 >>

(* _init_part, lines 273-274: for val in lut_vcom_dc: self._send_data(val) *)
RECURSIVE SendEach(_)
SendEach(vals) ==
    IF vals = <<>> THEN <<>> ELSE SendData(Head(vals)) \o SendEach(Tail(vals))

(* _init_part, lines 258-291 *)
InitPart ==
    SendCommand(\H2C) \o SendData(\H26) \o WaitUntilIdle
    \o SendCommand(\H32) \o SendEach(lut_vcom_dc)
    \o SendCommand(\H37) \o SendData(\H00) \o SendData(\H00) \o SendData(\H00)
       \o SendData(\H00) \o SendData(\H40) \o SendData(\H00) \o SendData(\H00)
    \o SendCommand(\H22) \o SendData(\HC0)
    \o SendCommand(\H20) \o WaitUntilIdle
    \o SendCommand(\H3C) \o SendData(\H01)

InitSequence_NoFirstWait(update_mode) ==
    Reset \o (IF update_mode = FULL_UPDATE THEN InitFull ELSE InitPart)

(* init, lines 198-204: the body of the try block *)
InitSequence(update_mode) ==
    Reset \o WaitUntilIdle
    \o (IF update_mode = FULL_UPDATE THEN InitFull ELSE InitPart)

(* init, lines 193-206 *)
EPD_init(update_mode) ==
    IF mock_mode THEN << Sleep(100), Return("0") >>
    ELSE InitSequence(update_mode) \o << Return("0") >>

ClearPayload_WholeLines(color) == Repeat(color, HEIGHT * ((WIDTH + 7) \div 8))

(* Clear, line 307: [color] * (self.height * self.width // 8) *)
ClearPayload(color) == Repeat(color, (HEIGHT * WIDTH) \div 8)

(* Clear, lines 301-312 *)
EPD_Clear(color) ==
    IF mock_mode THEN << Sleep(100), Return("None") >>
    ELSE SendCommand(\H24) \o SendDataBulk(ClearPayload(color))
         \o SendCommand(\H22) \o SendData(\HF7)
         \o SendCommand(\H20) \o WaitUntilIdle
         \o << Return("None") >>

(* displayPartial, lines 338-349 *)
EPD_displayPartial(image_buffer) ==
    IF mock_mode THEN << Sleep(50), Return("None") >>
    ELSE SendCommand(\H24) \o SendDataBulk(image_buffer)
         \o SendCommand(\H22) \o SendData(\H0F)
         \o SendCommand(\H20) \o WaitUntilIdle
         \o << Return("None") >>

EPD_displayPartBaseImage_OneBank(image_buffer) ==
    IF mock_mode THEN << Sleep(50), Return("None") >>
    ELSE SendCommand(\H24) \o SendDataBulk(image_buffer)
         \o SendCommand(\H22) \o SendData(\HF7)
         \o SendCommand(\H20) \o WaitUntilIdle
         \o << Return("None") >>

(* displayPartBaseImage, lines 357-371 *)
EPD_displayPartBaseImage(image_buffer) ==
    IF mock_mode THEN << Sleep(50), Return("None") >>
    ELSE SendCommand(\H24) \o SendDataBulk(image_buffer)
         \o SendCommand(\H26) \o SendDataBulk(image_buffer)
         \o SendCommand(\H22) \o SendData(\HF7)
         \o SendCommand(\H20) \o WaitUntilIdle
         \o << Return("None") >>

EPD_sleep_NoMockCheck ==
    SendCommand(\H10) \o SendData(\H01) \o << Sleep(100), Return("None") >>

(* sleep, lines 377-382 *)
EPD_sleep ==
    IF mock_mode THEN << Return("None") >>
    ELSE SendCommand(\H10) \o SendData(\H01) \o << Sleep(100), Return("None") >>

(* epd2in13_V4.py, TurnOnDisplay, lines 55-58 *)
V4_TurnOnDisplay ==
    SendCommand(\H22) \o SendData(\HF7) \o SendCommand(\H20) \o ReadBusy

(* epd2in13_V4.py, displayPartBaseImage, lines 173-178 *)
V4_displayPartBaseImage(image) ==
    SendCommand(\H24) \o SendDataBulk(image)
    \o SendCommand(\H26) \o SendDataBulk(image)
    \o V4_TurnOnDisplay
    \o << Return("None") >>

(* module_exit, lines 388-396; GPIO.output is called directly there *)
EPD_module_exit ==
    IF mock_mode THEN << Return("None") >>
    ELSE (IF spi = "None" THEN << >>
          ELSE << [op |-> "spiclose", s |-> "", v |-> 0, p |-> NoPayload] >>)
         \o << DigitalWrite("RST", 0), DigitalWrite("DC", 0),
               [op |-> "cleanup", s |-> "", v |-> 0, p |-> NoPayload],
               Return("None") >>

(* the methods the application calls, and the arguments it passes *)
Calls ==
    IF drv = "V3"
      THEN {"init", "Clear", "displayPartial", "displayPartBaseImage", "sleep",
            "module_exit"}
      ELSE {"displayPartBaseImage"}

Args(c) ==
    CASE c = "init" -> {[n |-> m, buf |-> NoPayload] : m \in Modes}
      [] c = "Clear" -> {[n |-> col, buf |-> NoPayload] : col \in Colors}
      [] c \in {"displayPartial", "displayPartBaseImage"} ->
           {[n |-> 0, buf |-> b] : b \in Buffers}
      [] OTHER -> {[n |-> 0, buf |-> NoPayload]}

(* the program of the call in progress *)
Program ==
    CASE drv = "V4" -> V4_displayPartBaseImage(arg.buf)
      [] drv = "V3" /\ call = "init" -> EPD_init(arg.n)
      [] drv = "V3" /\ call = "Clear" -> EPD_Clear(arg.n)
      [] drv = "V3" /\ call = "displayPartial" -> EPD_displayPartial(arg.buf)
      [] drv = "V3" /\ call = "displayPartBaseImage" ->
           EPD_displayPartBaseImage(arg.buf)
      [] drv = "V3" /\ call = "module_exit" -> EPD_module_exit
      [] OTHER -> EPD_sleep

(* a method, not the constructor, is running *)
InCall == call \notin {"idle", "__init__"} /\ ret = "pending"
Cur == Program[ip]

(* what the lines carried: a byte list with DC low is a command, with DC *)
(* high it is data; a level written to RST; a finished wait, with        *)
(* whether it ended by the timeout; an operation that raised             *)
Cmd(c) == [k |-> "cmd", p |-> One(c)]
Data(data) == [k |-> "data", p |-> data]
Rst(value) == [k |-> "rst", p |-> One(value)]
Waited(timedout) == [k |-> "wait", p |-> One(IF timedout THEN 1 ELSE 0)]
Failed == [k |-> "fail", p |-> NoPayload]

(* the values of the constructor's mock_mode parameter: None, False, True *)
Requested == {None, 0, 1}

(* __init__, line 59: mock_mode if mock_mode is not None else (not           *)
(* HW_AVAILABLE)                                                             *)
RequestedMode(m, hw) == IF m # None THEN m = 1 ELSE ~hw

(***************************************************************************)
(* A V3 driver at the entry of EPD.__init__, after line 59 (lines 60-63    *)
(* copy constants); a V4 driver after its __init__, lines 14-22, which has *)
(* no mock mode and leaves the transport to epdconfig.                     *)
(***************************************************************************)
EpdInit ==
    /\ drv \in {"V3", "V4"}
    /\ HW_AVAILABLE \in (IF drv = "V3" THEN BOOLEAN ELSE {TRUE})
    /\ arg \in (IF drv = "V3"
                  THEN {[n |-> m, buf |-> NoPayload] : m \in Requested}
                  ELSE {[n |-> 0, buf |-> NoPayload]})
    /\ mock_mode = (drv = "V3" /\ RequestedMode(arg.n, HW_AVAILABLE))
    /\ spi = IF drv = "V3" THEN "unset" ELSE "open"
    /\ gpio = IF drv = "V3" THEN "unset" ELSE "setup"
    /\ phase = "Uninitialized"
    /\ dc = 0
    /\ cs = 0
    /\ call = IF drv = "V3" THEN "__init__" ELSE "idle"
    /\ ip = IF drv = "V3" THEN 1 ELSE 0
    /\ w_pc = "none"
    /\ w_elapsed = 0
    /\ log = <<>>
    /\ ret = "pending"

(* a V3 driver built with mock_mode=True, and never called *)
EpdQuiet ==
    /\ drv = "V3"
    /\ HW_AVAILABLE = FALSE
    /\ mock_mode = TRUE
    /\ spi = "None"
    /\ gpio = "unset"
    /\ phase = "Uninitialized"
    /\ dc = 0
    /\ cs = 0
    /\ call = "idle"
    /\ arg = [n |-> 0, buf |-> NoPayload]
    /\ ip = 0
    /\ w_pc = "none"
    /\ w_elapsed = 0
    /\ log = <<>>
    /\ ret = "pending"

notEpd == <<btnVars, tchVars, gtVars, facVars, menuVars, which>>

ModeOnError_Falls(c, m) == TRUE

(* mock_mode after an operation of method c raised: the except clauses of  *)
(* _init_gpio and _init_spi, lines 86-88 and 101-103, set it; no handler   *)
(* of another method assigns it                                            *)
ModeOnError(c, m) == IF c = "__init__" THEN TRUE ELSE m

(* __init__, lines 65-67: the mock branch *)
EpdNewMock ==
    /\ call = "__init__" /\ ret = "pending"
    /\ ip = 1
    /\ mock_mode
    /\ spi' = "None"
    /\ ret' = "None"
    /\ UNCHANGED <<drv, HW_AVAILABLE, mock_mode, gpio, phase, dc, cs, call, arg,
                   ip, w_pc, w_elapsed, log, notEpd>>

(* __init__, line 70, and _init_gpio, lines 75-88: GPIO.setmode,           *)
(* setwarnings and the four setup calls; any of them may raise, and all    *)
(* raise NameError when the import of line 29 failed                       *)
EpdInitGpio ==
    /\ call = "__init__" /\ ret = "pending"
    /\ ip = 1
    /\ ~mock_mode
    /\ \E ok \in (IF HW_AVAILABLE THEN BOOLEAN ELSE {FALSE}) :
         IF ok
           THEN gpio' = "setup" /\ UNCHANGED mock_mode
           ELSE mock_mode' = ModeOnError(call, mock_mode) /\ UNCHANGED gpio
    /\ ip' = 2
    /\ UNCHANGED <<drv, HW_AVAILABLE, spi, phase, dc, cs, call, arg, w_pc,
                   w_elapsed, log, ret, notEpd>>

(* __init__, line 71, and _init_spi, lines 92-104: returns at once in mock *)
(* mode, leaving self.spi unassigned; else opens the device, or on a       *)
(* failure falls back to mock mode with self.spi = None                    *)
EpdInitSpi ==
    /\ call = "__init__" /\ ret = "pending"
    /\ ip = 2
    /\ IF mock_mode
         THEN UNCHANGED <<mock_mode, spi>>
         ELSE \E ok \in (IF HW_AVAILABLE THEN BOOLEAN ELSE {FALSE}) :
                IF ok
                  THEN spi' = "open" /\ UNCHANGED mock_mode
                  ELSE mock_mode' = ModeOnError(call, mock_mode) /\ spi' = "None"
    /\ ret' = "None"
    /\ UNCHANGED <<drv, HW_AVAILABLE, gpio, phase, dc, cs, call, arg, ip, w_pc,
                   w_elapsed, log, notEpd>>

(* the application calls a method of the driver it has built *)
EpdCall ==
    /\ which = "epd"
    /\ call = "idle"
    /\ \E c \in Calls : \E a \in Args(c) : call' = c /\ arg' = a
    /\ ip' = 1
    /\ log' = <<>>
    /\ ret' = "pending"
    /\ UNCHANGED <<drv, HW_AVAILABLE, mock_mode, spi, gpio, phase,
                   dc, cs, w_pc, w_elapsed, notEpd>>

OnTransportError_Propagates(c) == "raised"

OnTransportError_ExitRaises(c) ==
    IF drv = "V3" /\ c = "init" THEN "-1" ELSE "raised"

(* how a call ends when a transport operation raises: init returns -1      *)
(* from its except clause, lines 207-209, and module_exit logs the error   *)
(* and returns, lines 397-398; no other method has a handler               *)
OnTransportError(c) ==
    CASE drv = "V3" /\ c = "init" -> "-1"
      [] drv = "V3" /\ c = "module_exit" -> "None"
      [] OTHER -> "raised"

(* an operation of the call raised *)
Raise ==
    /\ ret' = OnTransportError(call)
    /\ log' = Append(log, Failed)
    /\ mock_mode' = ModeOnError(call, mock_mode)

(* _digital_write, lines 108-109: GPIO.output(pin, value) sets the level *)
(* or raises; it raises on a channel that is not set up                  *)
EpdDigitalWrite ==
    /\ InCall
    /\ Cur.op = "gpio"
    /\ \E ok \in (IF gpio = "setup" THEN BOOLEAN ELSE {FALSE}) :
         IF ok
           THEN /\ dc' = IF Cur.s = "DC" THEN Cur.v ELSE dc
                /\ cs' = IF Cur.s = "CS" THEN Cur.v ELSE cs
                /\ log' = IF Cur.s = "RST" THEN Append(log, Rst(Cur.v)) ELSE log
                /\ ip' = ip + 1
                /\ UNCHANGED <<ret, mock_mode>>
           ELSE /\ Raise
                /\ UNCHANGED <<dc, cs, ip>>
    /\ UNCHANGED <<drv, HW_AVAILABLE, spi, gpio, phase, call, arg, w_pc,
                   w_elapsed, notEpd>>

(* _spi_writebyte, lines 119-125: nothing is written when self.spi is None; *)
(* else spi.writebytes(data) carries the list to the selected panel, as a   *)
(* command or as data by the DC level, or raises; it raises on a closed     *)
(* handle                                                                   *)
EpdSpiWrite ==
    /\ InCall
    /\ Cur.op = "spi"
    /\ IF spi = "None"
         THEN ip' = ip + 1 /\ UNCHANGED <<log, ret, mock_mode>>
         ELSE \E ok \in (IF spi = "open" THEN BOOLEAN ELSE {FALSE}) :
                IF ok
                  THEN /\ log' = IF cs # 0 THEN log
                                 ELSE Append(log,
                                             [k |-> IF dc = 0 THEN "cmd" ELSE "data",
                                              p |-> Cur.p])
                       /\ ip' = ip + 1
                       /\ UNCHANGED <<ret, mock_mode>>
                  ELSE /\ Raise
                       /\ UNCHANGED ip
    /\ UNCHANGED <<drv, HW_AVAILABLE, spi, gpio, phase, dc, cs, call, arg, w_pc,
                   w_elapsed, notEpd>>

(* module_exit, lines 392-393: self.spi.close() closes the handle or raises *)
EpdSpiClose ==
    /\ InCall
    /\ Cur.op = "spiclose"
    /\ \E ok \in (IF spi = "unset" THEN {FALSE} ELSE BOOLEAN) :
         IF ok
           THEN /\ spi' = "closed"
                /\ ip' = ip + 1
                /\ UNCHANGED <<log, ret, mock_mode>>
           ELSE /\ Raise
                /\ UNCHANGED <<spi, ip>>
    /\ UNCHANGED <<drv, HW_AVAILABLE, gpio, phase, dc, cs, call, arg, w_pc,
                   w_elapsed, notEpd>>

(* module_exit, line 396: GPIO.cleanup() releases the channels or raises *)
EpdCleanup ==
    /\ InCall
    /\ Cur.op = "cleanup"
    /\ \E ok \in BOOLEAN :
         IF ok
           THEN /\ gpio' = "cleaned"
                /\ ip' = ip + 1
                /\ UNCHANGED <<log, ret, mock_mode>>
           ELSE /\ Raise
                /\ UNCHANGED <<gpio, ip>>
    /\ UNCHANGED <<drv, HW_AVAILABLE, spi, phase, dc, cs, call, arg, w_pc,
                   w_elapsed, notEpd>>

(* time.sleep(...) of _reset, sleep and the mock branches *)
EpdSleep ==
    /\ InCall
    /\ Cur.op = "sleep"
    /\ ip' = ip + 1
    /\ UNCHANGED <<drv, HW_AVAILABLE, mock_mode, spi, gpio, phase,
                   dc, cs, call, arg, w_pc, w_elapsed, log, ret,
                   notEpd>>

(* _wait_until_idle, line 177: timeout = time.time() + 10 *)
WaitBegin ==
    /\ InCall
    /\ Cur.op = "wait"
    /\ w_pc = "none"
    /\ w_pc' = "read"
    /\ w_elapsed' = 0
    /\ UNCHANGED <<drv, HW_AVAILABLE, mock_mode, spi, gpio, phase,
                   dc, cs, call, arg, ip, log, ret, notEpd>>

(* line 178: while self._digital_read(self.BUSY_PIN) == 1; GPIO.input *)
(* answers either level, or raises; it raises on a channel that is    *)
(* not set up                                                         *)
WaitRead ==
    /\ InCall
    /\ Cur.op = "wait"
    /\ w_pc = "read"
    /\ \E busy \in (IF gpio = "setup" THEN {"idle", "busy", "raise"}
                                       ELSE {"raise"}) :
         IF busy = "raise"
           THEN /\ Raise
                /\ w_pc' = "none"
                /\ w_elapsed' = 0
           ELSE /\ w_pc' = IF busy = "busy" THEN "sleep" ELSE "final"
                /\ UNCHANGED <<w_elapsed, log, ret, mock_mode>>
    /\ UNCHANGED <<drv, HW_AVAILABLE, spi, gpio, phase, dc, cs, call, arg, ip,
                   notEpd>>

TimedOut_Never(elapsed) == FALSE

(* line 180: if time.time() > timeout *)
TimedOut(elapsed) == elapsed > WaitTimeoutTicks

(* lines 179-182: time.sleep(0.01), then the timeout check *)
WaitSleep ==
    /\ InCall
    /\ Cur.op = "wait"
    /\ w_pc = "sleep"
    /\ w_elapsed' = Min(w_elapsed + 1, WaitTimeoutTicks + 2)
    /\ w_pc' = IF TimedOut(w_elapsed') THEN "final_timeout" ELSE "read"
    /\ UNCHANGED <<drv, HW_AVAILABLE, mock_mode, spi, gpio, phase,
                   dc, cs, call, arg, ip, log, ret, notEpd>>

(* line 183: the closing time.sleep(0.01); _wait_until_idle returns *)
WaitEnd ==
    /\ InCall
    /\ Cur.op = "wait"
    /\ w_pc \in {"final", "final_timeout"}
    /\ log' = Append(log, Waited(w_pc = "final_timeout"))
    /\ w_pc' = "none"
    /\ w_elapsed' = 0
    /\ ip' = ip + 1
    /\ UNCHANGED <<drv, HW_AVAILABLE, mock_mode, spi, gpio, phase,
                   dc, cs, call, arg, ret, notEpd>>

(* epd2in13_V4.py, ReadBusy, line 51: while digital_read(busy_pin) == 1 *)
V4ReadBusy ==
    /\ InCall
    /\ Cur.op = "readbusy"
    /\ w_pc = "none"
    /\ \E busy \in {"idle", "busy", "raise"} :
         CASE busy = "raise" ->
                /\ Raise
                /\ UNCHANGED <<w_pc, ip>>
           [] busy = "busy" ->
                /\ w_pc' = "delay"
                /\ UNCHANGED <<log, ret, ip, mock_mode>>
           [] OTHER ->
                /\ log' = Append(log, Waited(FALSE))
                /\ ip' = ip + 1
                /\ UNCHANGED <<w_pc, ret, mock_mode>>
    /\ UNCHANGED <<drv, HW_AVAILABLE, spi, gpio, phase, dc, cs, call, arg,
                   w_elapsed, notEpd>>

(* epd2in13_V4.py, ReadBusy, line 52: epdconfig.delay_ms(10) *)
V4Delay ==
    /\ InCall
    /\ Cur.op = "readbusy"
    /\ w_pc = "delay"
    /\ w_pc' = "none"
    /\ UNCHANGED <<drv, HW_AVAILABLE, mock_mode, spi, gpio, phase,
                   dc, cs, call, arg, ip, w_elapsed, log, ret,
                   notEpd>>

(* a return statement of the method *)
EpdReturnValue ==
    /\ InCall
    /\ Cur.op = "return"
    /\ ret' = Cur.s
    /\ UNCHANGED <<drv, HW_AVAILABLE, mock_mode, spi, gpio, phase,
                   dc, cs, call, arg, ip, w_pc, w_elapsed, log,
                   notEpd>>

(* the panel state after method c, called with a, ended as r: init       *)
(* returning 0 leaves the panel ready in the mode asked for, sleep        *)
(* returning leaves it asleep, module_exit leaves the driver closed       *)
PhaseAfter(c, a, r, ph) ==
    CASE c = "init" /\ r = "0" ->
           IF a.n = FULL_UPDATE THEN "FullReady" ELSE "PartialReady"
      [] c = "sleep" /\ r = "None" -> "Asleep"
      [] c = "module_exit" /\ r = "None" -> "Closed"
      [] OTHER -> ph

(* the call is over: the application has its result or its exception *)
EpdReturn ==
    /\ call # "idle"
    /\ ret # "pending"
    /\ call' = "idle"
    /\ arg' = [n |-> 0, buf |-> NoPayload]
    /\ ip' = 0
    /\ log' = <<>>
    /\ ret' = "pending"
    /\ phase' = PhaseAfter(call, arg, ret, phase)
    /\ UNCHANGED <<drv, HW_AVAILABLE, mock_mode, spi, gpio, dc, cs, w_pc,
                   w_elapsed, notEpd>>

(***************************************************************************)
(* GT1151, the touch controller driver.                                    *)
(***************************************************************************)
I2C_ADDR == \H5D
I2C_ADDR_ALT == \H14
POINT_INFO == \H814E
POINT1_REG == \H814F
SCAN_DIR_DFT == 0
X_MAX == 250
Y_MAX == 122

(* the points a frame holds: [0] * 5, lines 264-265 and 274-275 *)
Points == 0..4

(* GT_Development.__init__ and GT_Old.__init__, lines 262-276; S is never *)
(* read or written by the driver and is left out                          *)
ZeroFrame ==
    [Touch |-> 0, X |-> [i \in Points |-> 0], Y |-> [i \in Points |-> 0]]

map_x_RoundedUp(raw_x) == (raw_x * X_MAX + 1023) \div 1024

(* _map_x, line 223: int((raw_x * self.X_MAX) / 1024) *)
map_x(raw_x) == (raw_x * X_MAX) \div 1024

(* _map_y, line 227: int((raw_y * self.Y_MAX) / 1024) *)
map_y(raw_y) == (raw_y * Y_MAX) \div 1024

(* the two bytes of a 16-bit value, low byte first, as the controller *)
(* lays a coordinate out                                              *)
Lo(v) == v % 256
Hi(v) == (v \div 256) % 256

(* read_touch, lines 200 and 202: low | (high << 8) *)
Le16(low, high) == low + 256 * high

(* the point data the controller may answer with, for up to five points: *)
(* point i holds the bytes of its raw x and y                            *)
RawFrames ==
    { [i \in Points |->
         [xl |-> Lo(x0 - 100 * i), xh |-> Hi(x0 - 100 * i),
          yl |-> Lo(y0 - 200 * i), yh |-> Hi(y0 - 200 * i)]] :
      x0 \in {1023}, y0 \in {1023, 900} }

(* the values of the point-info register *)
InfoBytes == 0..255

(* read_touch, line 187: point_info[0] & 0x0F *)
TouchCount(b) == b % 16

HasPoints_AnyCount(tc) == tc > 0

(* read_touch, line 189: touch_count > 0 and touch_count <= 5 *)
HasPoints(tc) == tc > 0 /\ tc <= 5

(* read_touch, lines 194-206: the frame after touch_count points of the *)
(* data were parsed into it                                             *)
Parsed(dev, tc, data) ==
    [Touch |-> tc,
     X |-> [i \in Points |->
              IF i < tc THEN map_x(Le16(data[i].xl, data[i].xh)) ELSE dev.X[i]],
     Y |-> [i \in Points |->
              IF i < tc THEN map_y(Le16(data[i].yl, data[i].yh)) ELSE dev.Y[i]]]

(* scan, lines 241-243: what is saved of the current frame *)
SaveOld(old, dev) ==
    [old EXCEPT !.X[0] = dev.X[0], !.Y[0] = dev.Y[0], !.Touch = dev.Touch]

(* the result of a call *)
Pending == [st |-> "pending", n |-> 0, x |-> 0, y |-> 0, touched |-> FALSE]
Returned(count) == [Pending EXCEPT !.st = "returned", !.n = count]

(* get_point, lines 254-256 *)
PointOf(dev) ==
    IF dev.Touch > 0
      THEN [Pending EXCEPT !.st = "returned", !.x = dev.X[0], !.y = dev.Y[0],
                           !.touched = TRUE]
      ELSE [Pending EXCEPT !.st = "returned"]

(* an operation on the bus or on the GPIO library, and how it went *)
BusOp(kind, address, length, ok) ==
    [k |-> kind, a |-> address, len |-> length, ok |-> ok]

ProbeAddress_AltOnly(step) == I2C_ADDR_ALT

(* _init_hardware, lines 82 and 88: the address each probe reads *)
ProbeAddress(step) == IF step = "primary" THEN I2C_ADDR ELSE I2C_ADDR_ALT

(***************************************************************************)
(* A GT1151 at the entry of __init__, after lines 61-63.  The frames that  *)
(* every path of the constructor creates (lines 68-69, 102-103, 109-110)   *)
(* are there from the start.                                               *)
(***************************************************************************)
GtInit ==
    /\ GT_HW_AVAILABLE \in BOOLEAN
    /\ g_arg \in Requested
    /\ g_mock = RequestedMode(g_arg, GT_HW_AVAILABLE)
    /\ bus = "unset"
    /\ i2c_addr = I2C_ADDR
    /\ scan_dir = SCAN_DIR_DFT
    /\ gt_dev = ZeroFrame
    /\ gt_old = ZeroFrame
    /\ g_call = "__init__"
    /\ g_pc = "begin"
    /\ touch_count = 0
    /\ g_before = ZeroFrame
    /\ g_log = << >>
    /\ g_ret = Pending

(* a GT1151 built with mock_mode=True, and never called *)
GtQuiet ==
    /\ GT_HW_AVAILABLE = FALSE
    /\ g_arg = 0
    /\ g_mock = TRUE
    /\ bus = "None"
    /\ i2c_addr = I2C_ADDR
    /\ scan_dir = SCAN_DIR_DFT
    /\ gt_dev = ZeroFrame
    /\ gt_old = ZeroFrame
    /\ g_call = "idle"
    /\ g_pc = "done"
    /\ touch_count = 0
    /\ g_before = ZeroFrame
    /\ g_log = << >>
    /\ g_ret = Pending

notGt == <<btnVars, tchVars, epdVars, facVars, menuVars, which>>

GtAt(c, pc) == g_call \in c /\ g_pc = pc /\ g_ret.st = "pending"

(* __init__, lines 65-69: the mock branch *)
GtNewMock ==
    /\ GtAt({"__init__"}, "begin")
    /\ g_mock
    /\ bus' = "None"
    /\ g_pc' = "done"
    /\ g_ret' = Returned(0)
    /\ UNCHANGED <<GT_HW_AVAILABLE, g_mock, i2c_addr, scan_dir, gt_dev, gt_old,
                   g_call, g_arg, touch_count, g_before, g_log, notGt>>

(* _init_hardware, the handler of the outer try, lines 105-110 *)
GtInitFailed ==
    /\ g_mock' = TRUE
    /\ bus' = "None"
    /\ g_pc' = "done"
    /\ g_ret' = Returned(0)

(* _init_hardware, line 78: smbus.SMBus(1) opens the bus or raises; it *)
(* raises NameError when the import of line 26 failed                  *)
GtOpenBus ==
    /\ GtAt({"__init__"}, "begin")
    /\ ~g_mock
    /\ \E ok \in (IF GT_HW_AVAILABLE THEN BOOLEAN ELSE {FALSE}) :
         /\ g_log' = Append(g_log, BusOp("open", 0, 0, ok))
         /\ IF ok
              THEN bus' = "open" /\ g_pc' = "primary" /\ UNCHANGED <<g_mock, g_ret>>
              ELSE GtInitFailed
    /\ UNCHANGED <<GT_HW_AVAILABLE, i2c_addr, scan_dir, gt_dev, gt_old, g_call,
                   g_arg, touch_count, g_before, notGt>>

(* _init_hardware, lines 81-84: the read at the primary address; whatever *)
(* it raises leads to the alternative address                             *)
GtProbePrimary ==
    /\ GtAt({"__init__"}, "primary")
    /\ \E ok \in BOOLEAN :
         /\ g_log' = Append(g_log, BusOp("probe", ProbeAddress("primary"), 1, ok))
         /\ g_pc' = IF ok THEN "gpio" ELSE "alt"
    /\ UNCHANGED <<GT_HW_AVAILABLE, g_mock, bus, i2c_addr, scan_dir, gt_dev,
                   gt_old, g_call, g_arg, touch_count, g_before, g_ret, notGt>>

(* _init_hardware, lines 86-93: the alternative address is taken, then *)
(* read; a failure ends in mock mode without a bus                     *)
GtProbeAlt ==
    /\ GtAt({"__init__"}, "alt")
    /\ i2c_addr' = ProbeAddress("alt")
    /\ \E ok \in BOOLEAN :
         /\ g_log' = Append(g_log, BusOp("probe", ProbeAddress("alt"), 1, ok))
         /\ IF ok
              THEN UNCHANGED <<g_mock, bus>>
              ELSE g_mock' = TRUE /\ bus' = "None"
    /\ g_pc' = "gpio"
    /\ UNCHANGED <<GT_HW_AVAILABLE, scan_dir, gt_dev, gt_old, g_call, g_arg,
                   touch_count, g_before, g_ret, notGt>>

(* _init_hardware, lines 96-103: the interrupt pin is set up unless the *)
(* probes failed; GPIO.setmode or GPIO.setup may raise                  *)
GtInitGpio ==
    /\ GtAt({"__init__"}, "gpio")
    /\ IF g_mock
         THEN /\ g_pc' = "done"
              /\ g_ret' = Returned(0)
              /\ UNCHANGED <<g_mock, bus, g_log>>
         ELSE \E ok \in BOOLEAN :
                /\ g_log' = Append(g_log, BusOp("gpio", 0, 0, ok))
                /\ IF ok
                     THEN /\ g_pc' = "done"
                          /\ g_ret' = Returned(0)
                          /\ UNCHANGED <<g_mock, bus>>
                     ELSE GtInitFailed
    /\ UNCHANGED <<GT_HW_AVAILABLE, i2c_addr, scan_dir, gt_dev, gt_old, g_call,
                   g_arg, touch_count, g_before, notGt>>

(* the scan directions the application passes: scan() *)
ScanDirs == {SCAN_DIR_DFT}

(* the application calls read_touch, scan or get_point *)
GtCall ==
    /\ which = "gt"
    /\ g_call = "idle"
    /\ \E c \in {"read_touch", "scan", "get_point"} :
         /\ g_call' = c
         /\ g_arg' \in (IF c = "scan" THEN ScanDirs ELSE {0})
         /\ g_pc' = IF c = "scan" THEN "save" ELSE "read"
    /\ g_before' = gt_dev
    /\ g_log' = << >>
    /\ g_ret' = Pending
    /\ UNCHANGED <<GT_HW_AVAILABLE, g_mock, bus, i2c_addr, scan_dir, gt_dev,
                   gt_old, touch_count, notGt>>

(* scan, lines 238-243 *)
GtScanSave ==
    /\ GtAt({"scan"}, "save")
    /\ scan_dir' = g_arg
    /\ gt_old' = SaveOld(gt_old, gt_dev)
    /\ g_pc' = "read"
    /\ UNCHANGED <<GT_HW_AVAILABLE, g_mock, bus, i2c_addr, gt_dev, g_call, g_arg,
                   touch_count, g_before, g_log, g_ret, notGt>>

(* read_touch, lines 173-178: mock mode *)
GtMockRead ==
    /\ GtAt({"read_touch", "scan"}, "read")
    /\ g_mock
    /\ gt_dev' = ZeroFrame
    /\ g_pc' = "done"
    /\ g_ret' = Returned(0)
    /\ UNCHANGED <<GT_HW_AVAILABLE, g_mock, bus, i2c_addr, scan_dir, gt_old,
                   g_call, g_arg, touch_count, g_before, g_log, notGt>>

(* read_touch, lines 182-189 and 213-214, with _read_reg, lines 122-140:   *)
(* the point-info register is read; None (a failed read) returns 0 at line *)
(* 184; a count outside 1..5 stores 0 and returns 0                        *)
GtReadInfo ==
    /\ GtAt({"read_touch", "scan"}, "read")
    /\ ~g_mock
    /\ \E b \in (IF bus = "open" THEN InfoBytes \cup {None} ELSE {0}) :
         /\ g_log' = IF bus = "open"
                       THEN Append(g_log, BusOp("read", POINT_INFO, 1, b # None))
                       ELSE g_log
         /\ CASE b = None ->
                   /\ g_pc' = "done"
                   /\ g_ret' = Returned(0)
                   /\ UNCHANGED <<gt_dev, touch_count>>
              [] b # None /\ HasPoints(TouchCount(b)) ->
                   /\ touch_count' = TouchCount(b)
                   /\ g_pc' = "data"
                   /\ UNCHANGED <<gt_dev, g_ret>>
              [] OTHER ->
                   /\ touch_count' = TouchCount(b)
                   /\ gt_dev' = [gt_dev EXCEPT !.Touch = 0]
                   /\ g_pc' = "done"
                   /\ g_ret' = Returned(0)
    /\ UNCHANGED <<GT_HW_AVAILABLE, g_mock, bus, i2c_addr, scan_dir, gt_old,
                   g_call, g_arg, g_before, notGt>>

(* read_touch, lines 191-206 and 213-214: touch_count * 8 bytes of point *)
(* data are read and parsed; a failed read stores 0 and returns 0        *)
GtReadData ==
    /\ GtAt({"read_touch", "scan"}, "data")
    /\ \E ok \in BOOLEAN :
         /\ g_log' = Append(g_log, BusOp("read", POINT1_REG, touch_count * 8, ok))
         /\ IF ok
              THEN /\ \E data \in RawFrames :
                        gt_dev' = Parsed(gt_dev, touch_count, data)
                   /\ g_pc' = "clear"
                   /\ UNCHANGED g_ret
              ELSE /\ gt_dev' = [gt_dev EXCEPT !.Touch = 0]
                   /\ g_pc' = "done"
                   /\ g_ret' = Returned(0)
    /\ UNCHANGED <<GT_HW_AVAILABLE, g_mock, bus, i2c_addr, scan_dir, gt_old,
                   g_call, g_arg, touch_count, g_before, notGt>>

(* read_touch, lines 209-211, with _write_reg, lines 155-165: the touch *)
(* flag is cleared, or the write fails and is logged; touch_count is    *)
(* returned either way                                                  *)
GtClearFlag ==
    /\ GtAt({"read_touch", "scan"}, "clear")
    /\ \E ok \in BOOLEAN :
         g_log' = Append(g_log, BusOp("write", POINT_INFO, 1, ok))
    /\ g_pc' = "done"
    /\ g_ret' = Returned(touch_count)
    /\ UNCHANGED <<GT_HW_AVAILABLE, g_mock, bus, i2c_addr, scan_dir, gt_dev,
                   gt_old, g_call, g_arg, touch_count, g_before, notGt>>

(* get_point, lines 254-256 *)
GtGetPoint ==
    /\ GtAt({"get_point"}, "read")
    /\ g_pc' = "done"
    /\ g_ret' = PointOf(gt_dev)
    /\ UNCHANGED <<GT_HW_AVAILABLE, g_mock, bus, i2c_addr, scan_dir, gt_dev,
                   gt_old, g_call, g_arg, touch_count, g_before, g_log, notGt>>

(* the call is over: the application has its result *)
GtReturn ==
    /\ g_call # "idle"
    /\ g_ret.st # "pending"
    /\ g_call' = "idle"
    /\ g_arg' = 0
    /\ touch_count' = 0
    /\ g_before' = ZeroFrame
    /\ g_log' = << >>
    /\ g_ret' = Pending
    /\ UNCHANGED <<GT_HW_AVAILABLE, g_mock, bus, i2c_addr, scan_dir, gt_dev,
                   gt_old, g_pc, notGt>>

(***************************************************************************)
(* create_input_handler, the factory of input handlers.  A configuration   *)
(* is None, an empty dict or a dict; of a dict the model keeps what the    *)
(* factory reads: hardware.touch.enabled, hardware.button.enabled and      *)
(* hardware.button.gpio_pin, each absent or set.                           *)
(***************************************************************************)
DEFAULT_PIN == 3

Configs ==
    { [kind |-> "None", touch_enabled |-> "absent", button_enabled |-> "absent",
       button_pin |-> None],
      [kind |-> "empty", touch_enabled |-> "absent", button_enabled |-> "absent",
       button_pin |-> None] }
    \cup
    { [kind |-> "dict", touch_enabled |-> t, button_enabled |-> b,
       button_pin |-> bp] : t \in {"absent", "false", "true"},
                            b \in {"absent", "false", "true"},
                            bp \in {None, 5} }

(* a handle is None or an object *)
Handles == {None, 1}

(* the pins the application passes: none, or a BCM number *)
Pins == {None, 0, 3, 4}

(* line 253: if config *)
Truthy(config) == config.kind = "dict"

(* line 266: button_config.get('enabled', True) *)
ButtonEnabled(config) == config.button_enabled # "false"

(* line 269: gpio_pin or 3 *)
PinOrDefault(gpio_pin) ==
    IF gpio_pin = None \/ gpio_pin = 0 THEN DEFAULT_PIN ELSE gpio_pin

TouchInputHandler == [kind |-> "touch", pin |-> None]
ButtonInputHandler(gpio_pin) == [kind |-> "button", pin |-> gpio_pin]

(* create_input_handler, lines 243-282 *)
create_input_handler(config, gt, gt_dev_h, gt_old_h, gpio_pin) ==
    IF gt # None /\ gt_dev_h # None
      THEN TouchInputHandler
    ELSE IF Truthy(config) /\ ButtonEnabled(config)
      THEN ButtonInputHandler(IF config.button_pin # None
                                THEN config.button_pin
                                ELSE PinOrDefault(gpio_pin))
    ELSE IF gpio_pin # None
      THEN ButtonInputHandler(gpio_pin)
    ELSE ButtonInputHandler(DEFAULT_PIN)

NoHandler == [kind |-> "none", pin |-> None]

FacInit ==
    /\ f_in \in [config : Configs, gt : Handles, gt_dev : Handles,
                 gt_old : Handles, gpio_pin : Pins]
    /\ f_out = NoHandler

(* no call of the factory *)
FacQuiet ==
    /\ f_in = [config |-> CHOOSE c \in Configs : c.kind = "None", gt |-> None,
               gt_dev |-> None, gt_old |-> None, gpio_pin |-> None]
    /\ f_out = NoHandler

(* the factory is called and returns *)
FacCreate ==
    /\ which = "factory"
    /\ f_out = NoHandler
    /\ f_out' = create_input_handler(f_in.config, f_in.gt, f_in.gt_dev,
                                     f_in.gt_old, f_in.gpio_pin)
    /\ UNCHANGED <<f_in, btnVars, tchVars, epdVars, gtVars, menuVars, which>>

(***************************************************************************)
(* menu_button.py, the button menu application: the main thread, the       *)
(* monitor thread (monitor_button_hold) and the gpiozero thread that runs  *)
(* button_pressed and button_released, one step per statement that reads   *)
(* or writes a module global.  A stored time.time() is held by its age:    *)
(* 0 while less than 2.0 s old, 1 from then on.  The loops test            *)
(* menu_running, which only the final clause of line 291 clears.           *)
(***************************************************************************)
(* len(APPS), lines 31-37 *)
NumApps == 5

(* the indices of APPS *)
Apps == 0..(NumApps - 1)

(* APPS[index]: a negative index counts from the end of the list *)
AppAt(index) == IF index < 0 THEN index + NumApps ELSE index

(* hold_duration < 2.0, lines 128 and 135; hold_duration >= 2.0, line 159 *)
BelowHold(hold) == hold = 0

mGlobals == <<current_selection, button_press_start, hold_processed,
              launch_requested, launch_app_index, in_app>>
mMain == <<main_pc, app_to_launch>>
mHold == <<hold_pc, hold_is_pressed, hold_duration, detected_selection>>
mEdge == <<edge_pc, released_after>>
mButton == <<pisugar_pressed, pisugar_queue>>

notMenu == <<btnVars, tchVars, epdVars, gtVars, facVars, which>>

(* lines 40-52 and 263-268: the globals as assigned at import, the monitor *)
(* thread started, the callbacks set; the main thread is about to draw the *)
(* first menu, lines 271-273                                               *)
MenuInit ==
    /\ current_selection = 0
    /\ button_press_start = None
    /\ hold_processed = FALSE
    /\ launch_requested = FALSE
    /\ launch_app_index = -1
    /\ in_app = FALSE
    /\ main_pc = "first_draw"
    /\ app_to_launch = None
    /\ hold_pc = "check"
    /\ hold_is_pressed = FALSE
    /\ hold_duration = 0
    /\ detected_selection = None
    /\ edge_pc = "idle"
    /\ released_after = 0
    /\ pisugar_pressed = FALSE
    /\ pisugar_queue = << >>
    /\ presses = 0

(* the part of the state a specification leaves alone *)
MenuQuiet == MenuInit

(* the button goes down or up; gpiozero queues the edge for its thread *)
MenuPhysPress ==
    /\ which = "menu"
    /\ ~pisugar_pressed
    /\ Len(pisugar_queue) < MaxQueue
    /\ presses < MaxPresses
    /\ pisugar_pressed' = TRUE
    /\ pisugar_queue' = Append(pisugar_queue, "press")
    /\ presses' = presses + 1
    /\ UNCHANGED <<mGlobals, mMain, mHold, mEdge, notMenu>>

MenuPhysRelease ==
    /\ which = "menu"
    /\ pisugar_pressed
    /\ Len(pisugar_queue) < MaxQueue
    /\ pisugar_pressed' = FALSE
    /\ pisugar_queue' = Append(pisugar_queue, "release")
    /\ UNCHANGED <<mGlobals, mMain, mHold, mEdge, presses, notMenu>>

(* 2.0 s have passed since the time stored in button_press_start *)
MenuHoldElapses ==
    /\ which = "menu"
    /\ button_press_start = 0
    /\ button_press_start' = 1
    /\ UNCHANGED <<current_selection, hold_processed, launch_requested,
                   launch_app_index, in_app, mMain, mHold,
                   mEdge, mButton, presses, notMenu>>

(* the gpiozero thread takes the next edge and runs its callback *)
MenuDispatch ==
    /\ which = "menu"
    /\ edge_pc = "idle"
    /\ pisugar_queue # << >>
    /\ edge_pc' = IF Head(pisugar_queue) = "press" THEN "p_start" ELSE "r_check"
    /\ pisugar_queue' = Tail(pisugar_queue)
    /\ UNCHANGED <<mGlobals, mMain, mHold, released_after, pisugar_pressed,
                   presses, notMenu>>

(* button_pressed, line 105: button_press_start = time.time() *)
MenuPressStart ==
    /\ which = "menu"
    /\ edge_pc = "p_start"
    /\ button_press_start' = 0
    /\ edge_pc' = "p_hold"
    /\ UNCHANGED <<current_selection, hold_processed, launch_requested,
                   launch_app_index, in_app, mMain, mHold,
                   released_after, mButton, presses, notMenu>>

(* button_pressed, line 106: hold_processed = False *)
MenuPressHold ==
    /\ which = "menu"
    /\ edge_pc = "p_hold"
    /\ hold_processed' = FALSE
    /\ edge_pc' = "idle"
    /\ UNCHANGED <<current_selection, button_press_start, launch_requested,
                   launch_app_index, in_app, mMain, mHold,
                   released_after, mButton, presses, notMenu>>

(* button_released, lines 115-116: if button_press_start is None: return *)
MenuReleaseCheck ==
    /\ which = "menu"
    /\ edge_pc = "r_check"
    /\ edge_pc' = IF button_press_start = None THEN "idle" ELSE "r_dur"
    /\ UNCHANGED <<mGlobals, mMain, mHold, released_after, mButton, presses, notMenu>>

(* button_released, line 118: hold_duration = time.time() -              *)
(* button_press_start; a None operand raises TypeError, which ends the    *)
(* callback                                                               *)
MenuReleaseDuration ==
    /\ which = "menu"
    /\ edge_pc = "r_dur"
    /\ IF button_press_start = None
         THEN edge_pc' = "idle" /\ UNCHANGED released_after
         ELSE edge_pc' = "r_clear" /\ released_after' = button_press_start
    /\ UNCHANGED <<mGlobals, mMain, mHold, mButton, presses, notMenu>>

(* button_released, line 119: button_press_start = None *)
MenuReleaseClear ==
    /\ which = "menu"
    /\ edge_pc = "r_clear"
    /\ button_press_start' = None
    /\ edge_pc' = "r_hold"
    /\ UNCHANGED <<current_selection, hold_processed, launch_requested,
                   launch_app_index, in_app, mMain, mHold,
                   released_after, mButton, presses, notMenu>>

(* button_released, lines 123-125: if hold_processed: return *)
MenuReleaseHold ==
    /\ which = "menu"
    /\ edge_pc = "r_hold"
    /\ edge_pc' = IF hold_processed THEN "idle" ELSE "r_app"
    /\ released_after' = IF hold_processed THEN 0 ELSE released_after
    /\ UNCHANGED <<mGlobals, mMain, mHold, mButton, presses, notMenu>>

(* button_released, lines 128-132: a click inside an app sets the app's *)
(* TouchpointFlag and returns                                           *)
MenuReleaseInApp ==
    /\ which = "menu"
    /\ edge_pc = "r_app"
    /\ edge_pc' = IF in_app /\ BelowHold(released_after) THEN "idle" ELSE "r_menu"
    /\ released_after' = IF in_app /\ BelowHold(released_after) THEN 0
                         ELSE released_after
    /\ UNCHANGED <<mGlobals, mMain, mHold, mButton, presses, notMenu>>

(* button_released, line 135: if hold_duration < 2.0 and not in_app *)
MenuReleaseInMenu ==
    /\ which = "menu"
    /\ edge_pc = "r_menu"
    /\ edge_pc' = IF BelowHold(released_after) /\ ~in_app THEN "r_next" ELSE "idle"
    /\ released_after' = 0
    /\ UNCHANGED <<mGlobals, mMain, mHold, mButton, presses, notMenu>>

(* button_released, line 136: current_selection = (current_selection + 1) *)
(* % len(APPS)                                                            *)
MenuNavigate ==
    /\ which = "menu"
    /\ edge_pc = "r_next"
    /\ current_selection' = (current_selection + 1) % NumApps
    /\ edge_pc' = "r_draw"
    /\ UNCHANGED <<button_press_start, hold_processed, launch_requested,
                   launch_app_index, in_app, mMain, mHold,
                   released_after, mButton, presses, notMenu>>

(* button_released, lines 140-141: epd.displayPartial(...) returns; the *)
(* gpiozero thread is inside the driver while edge_pc = "r_draw"        *)
MenuNavigateDrawn ==
    /\ which = "menu"
    /\ edge_pc = "r_draw"
    /\ edge_pc' = "idle"
    /\ UNCHANGED <<mGlobals, mMain, mHold, released_after, mButton, presses, notMenu>>

(* monitor_button_hold, lines 149-150: while menu_running: if              *)
(* button_press_start is not None; else time.sleep(0.1), line 182          *)
HoldCheck ==
    /\ which = "menu"
    /\ hold_pc = "check"
    /\ button_press_start # None
    /\ hold_pc' = "pressed"
    /\ UNCHANGED <<mGlobals, mMain, hold_is_pressed, hold_duration,
                   detected_selection, mEdge, mButton, presses, notMenu>>

(* line 151: is_pressed = pisugar_button.is_pressed *)
HoldPressed ==
    /\ which = "menu"
    /\ hold_pc = "pressed"
    /\ hold_is_pressed' = pisugar_pressed
    /\ hold_pc' = "dur"
    /\ UNCHANGED <<mGlobals, mMain, hold_duration, detected_selection, mEdge,
                   mButton, presses, notMenu>>

(* line 152: hold_duration = time.time() - button_press_start; a None     *)
(* operand raises TypeError, which nothing in monitor_button_hold catches *)
HoldDuration ==
    /\ which = "menu"
    /\ hold_pc = "dur"
    /\ IF button_press_start = None
         THEN hold_pc' = "crashed" /\ UNCHANGED hold_duration
         ELSE hold_pc' = "cond" /\ hold_duration' = button_press_start
    /\ UNCHANGED <<mGlobals, mMain, hold_is_pressed, detected_selection, mEdge,
                   mButton, presses, notMenu>>

(* line 159: if is_pressed and hold_duration >= 2.0 and not hold_processed *)
HoldDetected(pressed_now, hold, processed) ==
    pressed_now /\ ~BelowHold(hold) /\ ~processed

(* line 159, and line 182 when the test fails; detected_selection records *)
(* the selection at the moment the hold is detected                       *)
HoldCond ==
    /\ which = "menu"
    /\ hold_pc = "cond"
    /\ IF HoldDetected(hold_is_pressed, hold_duration, hold_processed)
         THEN hold_pc' = "set" /\ detected_selection' = current_selection
         ELSE hold_pc' = "check" /\ UNCHANGED detected_selection
    /\ hold_is_pressed' = FALSE
    /\ hold_duration' = 0
    /\ UNCHANGED <<mGlobals, mMain, mEdge, mButton, presses, notMenu>>

(* line 160: hold_processed = True *)
HoldSet ==
    /\ which = "menu"
    /\ hold_pc = "set"
    /\ hold_processed' = TRUE
    /\ hold_pc' = "branch"
    /\ UNCHANGED <<current_selection, button_press_start, launch_requested,
                   launch_app_index, in_app, mMain, hold_is_pressed,
                   hold_duration, detected_selection, mEdge, mButton, presses, notMenu>>

(* line 162: if in_app *)
HoldBranch ==
    /\ which = "menu"
    /\ hold_pc = "branch"
    /\ hold_pc' = IF in_app THEN "exit" ELSE "request"
    /\ UNCHANGED <<mGlobals, mMain, hold_is_pressed, hold_duration,
                   detected_selection, mEdge, mButton, presses, notMenu>>

(* lines 164-173: the app is told of the long press, by TouchpointFlag = *)
(* 2 or by its exit flag, which only the app reads                       *)
HoldExitApp ==
    /\ which = "menu"
    /\ hold_pc = "exit"
    /\ hold_pc' = "clear"
    /\ UNCHANGED <<mGlobals, mMain, hold_is_pressed, hold_duration,
                   detected_selection, mEdge, mButton, presses, notMenu>>

(* line 177: launch_requested = True *)
HoldRequest ==
    /\ which = "menu"
    /\ hold_pc = "request"
    /\ launch_requested' = TRUE
    /\ hold_pc' = "index"
    /\ UNCHANGED <<current_selection, button_press_start, hold_processed,
                   launch_app_index, in_app, mMain, hold_is_pressed,
                   hold_duration, detected_selection, mEdge, mButton, presses, notMenu>>

(* line 178: launch_app_index = current_selection *)
HoldIndex ==
    /\ which = "menu"
    /\ hold_pc = "index"
    /\ launch_app_index' = current_selection
    /\ hold_pc' = "clear"
    /\ UNCHANGED <<current_selection, button_press_start, hold_processed,
                   launch_requested, in_app, mMain, hold_is_pressed,
                   hold_duration, detected_selection, mEdge, mButton, presses, notMenu>>

(* line 180: button_press_start = None; then time.sleep(0.1), line 182 *)
HoldClear ==
    /\ which = "menu"
    /\ hold_pc = "clear"
    /\ button_press_start' = None
    /\ hold_pc' = "check"
    /\ UNCHANGED <<current_selection, hold_processed, launch_requested,
                   launch_app_index, in_app, mMain, hold_is_pressed,
                   hold_duration, detected_selection, mEdge, mButton, presses, notMenu>>

(* the positions at which the main thread is inside the display driver:   *)
(* lines 271-273 (displayPartBaseImage, init), lines 194-195 (init,       *)
(* Clear) and lines 250-254 (init, Clear, displayPartBaseImage, init)     *)
MainDraws == {"first_draw", "launch_draw", "return_draw"}

(* the driver calls of lines 271-273 or 250-254 have returned: the main  *)
(* loop goes on at line 277 or line 285                                  *)
MainMenuDrawn ==
    /\ which = "menu"
    /\ main_pc \in {"first_draw", "return_draw"}
    /\ main_pc' = "loop"
    /\ UNCHANGED <<mGlobals, app_to_launch, mHold, mEdge, mButton, presses, notMenu>>

(* lines 277-279: while menu_running: if launch_requested; else           *)
(* time.sleep(0.1), line 285                                              *)
MainLoop ==
    /\ which = "menu"
    /\ main_pc = "loop"
    /\ launch_requested
    /\ main_pc' = "taken"
    /\ UNCHANGED <<mGlobals, app_to_launch, mHold, mEdge, mButton, presses, notMenu>>

(* line 280: launch_requested = False *)
MainTaken ==
    /\ which = "menu"
    /\ main_pc = "taken"
    /\ launch_requested' = FALSE
    /\ main_pc' = "pick"
    /\ UNCHANGED <<current_selection, button_press_start, hold_processed,
                   launch_app_index, in_app, app_to_launch,
                   mHold, mEdge, mButton, presses, notMenu>>

(* line 281: app_to_launch = APPS[launch_app_index] *)
MainPick ==
    /\ which = "menu"
    /\ main_pc = "pick"
    /\ app_to_launch' = AppAt(launch_app_index)
    /\ main_pc' = "enter"
    /\ UNCHANGED <<mGlobals, mHold, mEdge, mButton, presses, notMenu>>

(* launch_app, lines 190-195: in_app = True (exit_requested = False is    *)
(* read only by the apps); the driver calls of lines 194-195 begin        *)
MainEnterApp ==
    /\ which = "menu"
    /\ main_pc = "enter"
    /\ in_app' = TRUE
    /\ main_pc' = "launch_draw"
    /\ UNCHANGED <<current_selection, button_press_start, hold_processed,
                   launch_requested, launch_app_index, app_to_launch, mHold,
                   mEdge, mButton, presses, notMenu>>

(* launch_app, lines 194-195 have returned; lines 197-240: the app runs *)
MainRunApp ==
    /\ which = "menu"
    /\ main_pc = "launch_draw"
    /\ main_pc' = "app"
    /\ UNCHANGED <<mGlobals, app_to_launch, mHold, mEdge, mButton, presses, notMenu>>

(* lines 231-254: the app returns or raises, of itself or because it saw *)
(* its exit flag; finally: in_app = False, and the driver calls of lines *)
(* 250-254 begin                                                         *)
MainLeaveApp ==
    /\ which = "menu"
    /\ main_pc = "app"
    /\ in_app' = FALSE
    /\ main_pc' = "return_draw"
    /\ app_to_launch' = None
    /\ UNCHANGED <<current_selection, button_press_start, hold_processed,
                   launch_requested, launch_app_index, mHold, mEdge, mButton,
                   presses, notMenu>>

(***************************************************************************)
(* SpecMenu: the button menu application from the start of its main block, *)
(* the user pressing and releasing the button at any time.                 *)
(***************************************************************************)
InitMenu ==
    /\ which = "menu"
    /\ ButtonQuiet
    /\ TouchQuiet
    /\ EpdQuiet
    /\ GtQuiet
    /\ FacQuiet
    /\ MenuInit

NextMenu ==
    \/ MenuPhysPress
    \/ MenuPhysRelease
    \/ MenuHoldElapses
    \/ MenuDispatch
    \/ MenuPressStart
    \/ MenuPressHold
    \/ MenuReleaseCheck
    \/ MenuReleaseDuration
    \/ MenuReleaseClear
    \/ MenuReleaseHold
    \/ MenuReleaseInApp
    \/ MenuReleaseInMenu
    \/ MenuNavigate
    \/ MenuNavigateDrawn
    \/ HoldCheck
    \/ HoldPressed
    \/ HoldDuration
    \/ HoldCond
    \/ HoldSet
    \/ HoldBranch
    \/ HoldExitApp
    \/ HoldRequest
    \/ HoldIndex
    \/ HoldClear
    \/ MainMenuDrawn
    \/ MainLoop
    \/ MainTaken
    \/ MainPick
    \/ MainEnterApp
    \/ MainRunApp
    \/ MainLeaveApp

SpecMenu == InitMenu /\ [][NextMenu]_vars

(***************************************************************************)
(* SpecInput: one input handler, a ButtonInputHandler or a TouchHandler,   *)
(* with its threads, its application and its user callbacks.               *)
(***************************************************************************)
InitInput ==
    /\ which \in {"button", "touch"}
    /\ IF which = "button" THEN ButtonInit ELSE ButtonQuiet
    /\ IF which = "touch" THEN TouchInit ELSE TouchQuiet
    /\ EpdQuiet
    /\ GtQuiet
    /\ FacQuiet
    /\ MenuQuiet

NextInput ==
    \/ PhysPress
    \/ PhysRelease
    \/ Dispatch
    \/ PressStart
    \/ PressLatch
    \/ ReleaseCheck
    \/ ReleaseDuration
    \/ ReleaseClear
    \/ ReleaseLatch
    \/ ShortReturn
    \/ \E i \in Threads : MonLoop(i)
    \/ \E i \in Threads : MonCheck(i)
    \/ \E i \in Threads : MonDuration(i)
    \/ \E i \in Threads : MonCond(i)
    \/ \E i \in Threads : MonSet(i)
    \/ \E i \in Threads : MonCall(i)
    \/ \E i \in Threads : MonReturn(i)
    \/ BtnStart
    \/ BtnStop
    \/ BtnJoinReturn
    \/ BtnReturn
    \/ BtnTick
    \/ \E i \in Threads : TchLoop(i)
    \/ \E i \in Threads : TchRead(i)
    \/ \E i \in Threads : TchError(i)
    \/ TchStart
    \/ TchStop
    \/ TchJoinReturn
    \/ TchReturn
    \/ TchTick

SpecInput == InitInput /\ [][NextInput]_vars

(***************************************************************************)
(* SpecEPD: one EPD object, of epd2in13_V3 in hardware or mock mode or of  *)
(* epd2in13_V4, and the application calling its methods.                   *)
(***************************************************************************)
InitEPD ==
    /\ which = "epd"
    /\ ButtonQuiet
    /\ TouchQuiet
    /\ EpdInit
    /\ GtQuiet
    /\ FacQuiet
    /\ MenuQuiet

NextEPD ==
    \/ EpdNewMock
    \/ EpdInitGpio
    \/ EpdInitSpi
    \/ EpdCall
    \/ EpdDigitalWrite
    \/ EpdSpiWrite
    \/ EpdSpiClose
    \/ EpdCleanup
    \/ EpdSleep
    \/ WaitBegin
    \/ WaitRead
    \/ WaitSleep
    \/ WaitEnd
    \/ V4ReadBusy
    \/ V4Delay
    \/ EpdReturnValue
    \/ EpdReturn

SpecEPD == InitEPD /\ [][NextEPD]_vars

(***************************************************************************)
(* SpecGT: one GT1151 object, from its constructor on, and the application *)
(* calling its methods.                                                    *)
(***************************************************************************)
InitGT ==
    /\ which = "gt"
    /\ ButtonQuiet
    /\ TouchQuiet
    /\ EpdQuiet
    /\ GtInit
    /\ FacQuiet
    /\ MenuQuiet

NextGT ==
    \/ GtNewMock
    \/ GtOpenBus
    \/ GtProbePrimary
    \/ GtProbeAlt
    \/ GtInitGpio
    \/ GtCall
    \/ GtScanSave
    \/ GtMockRead
    \/ GtReadInfo
    \/ GtReadData
    \/ GtClearFlag
    \/ GtGetPoint
    \/ GtReturn

SpecGT == InitGT /\ [][NextGT]_vars

(***************************************************************************)
(* SpecMap: _map_x and _map_y applied to one raw coordinate.               *)
(***************************************************************************)
RAW_RANGE == 1024

(* the raw coordinates of the controller's 10-bit range *)
RawCoords == 0..(RAW_RANGE - 1)

InitMap ==
    /\ which = "map"
    /\ ButtonQuiet
    /\ TouchQuiet
    /\ EpdQuiet
    /\ GT_HW_AVAILABLE = FALSE
    /\ g_mock = TRUE
    /\ bus = "None"
    /\ i2c_addr = I2C_ADDR
    /\ scan_dir = SCAN_DIR_DFT
    /\ gt_dev = ZeroFrame
    /\ gt_old = ZeroFrame
    /\ g_call \in {"_map_x", "_map_y"}
    /\ g_arg \in RawCoords
    /\ g_pc = "read"
    /\ touch_count = 0
    /\ g_before = ZeroFrame
    /\ g_log = << >>
    /\ g_ret = Pending
    /\ FacQuiet
    /\ MenuQuiet

(* _map_x, line 223, or _map_y, line 227, returns *)
GtMap ==
    /\ GtAt({"_map_x", "_map_y"}, "read")
    /\ g_pc' = "done"
    /\ g_ret' = Returned(IF g_call = "_map_x" THEN map_x(g_arg) ELSE map_y(g_arg))
    /\ UNCHANGED <<GT_HW_AVAILABLE, g_mock, bus, i2c_addr, scan_dir, gt_dev,
                   gt_old, g_call, g_arg, touch_count, g_before, g_log, notGt>>

NextMap == GtMap \/ GtReturn

SpecMap == InitMap /\ [][NextMap]_vars

(***************************************************************************)
(* SpecFactory: one call of create_input_handler.                          *)
(***************************************************************************)
InitFactory ==
    /\ which = "factory"
    /\ ButtonQuiet
    /\ TouchQuiet
    /\ EpdQuiet
    /\ GtQuiet
    /\ FacInit
    /\ MenuQuiet

NextFactory == FacCreate

SpecFactory == InitFactory /\ [][NextFactory]_vars

(***************************************************************************)
(* SpecDrivers: one driver object, an EPD or a GT1151, from its            *)
(* constructor on.                                                         *)
(***************************************************************************)
InitDrivers ==
    /\ which \in {"epd", "gt"}
    /\ ButtonQuiet
    /\ TouchQuiet
    /\ IF which = "epd" THEN EpdInit ELSE EpdQuiet
    /\ IF which = "gt" THEN GtInit ELSE GtQuiet
    /\ FacQuiet
    /\ MenuQuiet

NextDrivers == NextEPD \/ NextGT

SpecDrivers == InitDrivers /\ [][NextDrivers]_vars

(***************************************************************************)
(* SpecV4: one EPD object of epd2in13_V4 and the application calling it.   *)
(* The calling thread is always scheduled again: a step that can be taken  *)
(* is eventually taken.                                                    *)
(***************************************************************************)
InitV4 == InitEPD /\ drv = "V4"

NextV4 ==
    \/ EpdCall
    \/ EpdDigitalWrite
    \/ EpdSpiWrite
    \/ V4ReadBusy
    \/ V4Delay
    \/ EpdReturnValue
    \/ EpdReturn

SpecV4 == InitV4 /\ [][NextV4]_vars /\ WF_vars(NextV4)

(***************************************************************************)
(* Claims about the input handlers, checked under SpecInput.               *)
(***************************************************************************)

(* C1: under every interleaving of the press edge, the monitor's poll and  *)
(* the release edge, on_long_press and on_short_press are never both       *)
(* invoked in the same press-release cycle.                                *)
C1_NeverBoth == ~(n_short > 0 /\ n_long > 0)

(* a cycle held past the threshold has ended with one long press and no    *)
(* short press                                                             *)
C1_Witness ==
    which = "button" /\ cyc_phase = "released" /\ n_long = 1 /\ n_short = 0

(* the handler was running from the press to this point of the cycle, and  *)
(* the user callbacks return within a poll interval                        *)
CycleObserved == which = "button" /\ ~cb_slow /\ cyc_ok

(* C2: with a running handler at default settings, a press released before *)
(* the threshold fires exactly one short press and no long press; a press  *)
(* held at least one poll interval past the threshold has fired exactly    *)
(* one long press by the time it is released, and fires no short press.    *)
C2_ShortXorLong ==
    /\ (CycleObserved /\ cyc_phase = "released" /\ rel_dur = "short")
          => (n_short = 1 /\ n_long = 0)
    /\ (CycleObserved /\ e_pc = "r_clear" /\ rel_dur = "long")
          => n_long = 1
    /\ (CycleObserved /\ cyc_phase = "released" /\ rel_dur = "long")
          => (n_long = 1 /\ n_short = 0)

(* C3: an exception raised by a user callback (on_short_press,             *)
(* on_long_press, on_error) never ends the thread that dispatched it.      *)
C3_CallbackContained ==
    /\ e_pc # "cb_crashed"
    /\ \A i \in Threads : m_pc[i] # "cb_crashed"
    /\ \A i \in Threads : t_pc[i] # "cb_crashed"

C5_StartNoop ==
    [][ /\ (a_pc = "idle" /\ a_pc' \in {"started", "start_noop"} /\ running)
            => (a_pc' = "start_noop" /\ UNCHANGED <<hVars, mVars>>)
        /\ (ta_pc = "idle" /\ ta_pc' \in {"started", "start_noop"} /\ t_running)
            => (ta_pc' = "start_noop"
                /\ UNCHANGED <<t_running, t_flag, t_thread, t_pc, t_sleep>>)
      ]_vars

(* start() has returned from a call made while a press was being timed *)
C5_Witness ==
    which = "button" /\ a_pc = "start_noop" /\ press_start_time # None

(***************************************************************************)
(* Claims about the e-paper driver, checked under SpecEPD.                 *)
(***************************************************************************)
IsCmd(e) == e.k = "cmd"
IsWait(e) == e.k = "wait"
IsBulk(e) == e.k = "data" /\ e.p.len > 1

(* the command bytes the panel received during the call, in order *)
CommandsOf(l) ==
    LET c == SelectSeq(l, IsCmd) IN [i \in 1..Len(c) |-> c[i].p.base]

HasFailed == \E i \in 1..Len(log) : log[i].k = "fail"

HardwareCall(c) == drv = "V3" /\ ~mock_mode /\ call = c

(* the commands of init(Full): SWRESET, then the eleven settings *)
FullInitCommands ==
    << \H12, \H01, \H11, \H44, \H45, \H3C, \H2C, \H03, \H04, \H3A, \H3B >>

(* C6: in hardware mode the wait for idle polls the busy line only until   *)
(* the 10 s timeout has passed and then returns, even if the line never    *)
(* reports idle; the timeout is no error: an init(Full) whose waits end    *)
(* whichever way sends its complete command sequence and returns 0.        *)
C6_WaitBounded ==
    /\ w_pc = "read" => w_elapsed <= WaitTimeoutTicks
    /\ w_elapsed <= WaitTimeoutTicks + 1
    /\ (HardwareCall("init") /\ arg.n = FULL_UPDATE /\ ret # "pending"
          /\ ~HasFailed)
         => (ret = "0" /\ CommandsOf(log) = FullInitCommands)

(* init(Full) has returned 0 after each of its three waits timed out *)
C6_Witness ==
    /\ HardwareCall("init") /\ arg.n = FULL_UPDATE /\ ret = "0"
    /\ CommandsOf(log) = FullInitCommands
    /\ Len(SelectSeq(log, IsWait)) = 3
    /\ \A i \in 1..Len(log) : log[i].k = "wait" => log[i].p.base = 1

(* C7: init never raises: it returns 0 when no transport operation failed  *)
(* and -1 when one raised, and nothing is sent after the operation that    *)
(* failed.                                                                 *)
C7_InitNeverRaises ==
    (drv = "V3" /\ call = "init") =>
        /\ ret \in {"pending", "0", "-1"}
        /\ ret = "0" => ~HasFailed
        /\ ret = "-1" => HasFailed
        /\ \A i \in 1..Len(log) :
             log[i].k = "fail" => (i = Len(log) /\ ret = "-1")

(* init has returned -1 after a failure in the middle of its commands *)
C7_Witness ==
    /\ HardwareCall("init") /\ ret = "-1"
    /\ Len(CommandsOf(log)) >= 2
    /\ log[Len(log)].k = "fail"

(* C8: every init in hardware mode pulses reset (high, low, high) first,   *)
(* then waits for idle, and only then sends commands; init(Full) sends     *)
(* 0x12 as its first command, waits for idle right after it, and ends      *)
(* with a wait for idle.                                                   *)
C8_InitOrder ==
    HardwareCall("init") =>
        /\ \A i \in 1..Len(log) :
             /\ i <= 3 => log[i] \in {Rst(<<1, 0, 1>>[i]), Failed}
             /\ i = 4 => log[i].k \in {"wait", "fail"}
             /\ log[i].k \in {"cmd", "data"} => i > 4
             /\ (arg.n = FULL_UPDATE /\ i = 5) => log[i] \in {Cmd(\H12), Failed}
             /\ (arg.n = FULL_UPDATE /\ i = 6) => log[i].k \in {"wait", "fail"}
        /\ (arg.n = FULL_UPDATE /\ ret = "0") =>
             (Len(log) > 6 /\ log[Len(log)].k = "wait")

(* init(Full) has returned 0 with the busy line idle at every wait *)
C8_Witness ==
    /\ HardwareCall("init") /\ arg.n = FULL_UPDATE /\ ret = "0"
    /\ \A i \in 1..Len(log) : log[i].k = "wait" => log[i].p.base = 0

RamWrites(l, bank) ==
    {l[i + 1].p : i \in {j \in 1..(Len(l) - 1) :
                           l[j] = Cmd(bank) /\ l[j + 1].k = "data"}}

SameBytes(a, b) ==
    \/ a = b
    \/ a.len = b.len /\ \A j \in 0..(a.len - 1) : ByteAt(a, j) = ByteAt(b, j)

(* C10: displayPartBaseImage(buf), of V3 and of V4, writes buf to both RAM *)
(* banks (after 0x24 and after 0x26) before it sends the activation        *)
(* command 0x20, so that both banks hold the same bytes, those of buf; it  *)
(* returns only after the activation.                                      *)
C10_BothBanks ==
    (call = "displayPartBaseImage" /\ ~mock_mode) =>
        /\ \A a \in 1..Len(log) :
             log[a] = Cmd(\H20) =>
               /\ a > 4
               /\ log[1] = Cmd(\H24) /\ log[2].k = "data"
               /\ log[3] = Cmd(\H26) /\ log[4].k = "data"
               /\ SameBytes(log[2].p, arg.buf)
               /\ SameBytes(log[4].p, log[2].p)
               /\ RamWrites(log, \H24) = {log[2].p}
               /\ RamWrites(log, \H26) = {log[4].p}
        /\ ret = "None" => \E a \in 1..Len(log) : log[a] = Cmd(\H20)

(* the V3 call has returned after writing a patterned framebuffer *)
C10_Witness ==
    /\ HardwareCall("displayPartBaseImage") /\ ret = "None"
    /\ arg.buf.len = 4000 /\ arg.buf.step # 0
    /\ RamWrites(log, \H24) = {arg.buf}
    /\ RamWrites(log, \H26) = {arg.buf}

(* the bytes of one frame: ceil(width / 8) * height *)
FrameBytes == ((WIDTH + 7) \div 8) * HEIGHT

(* C11: displayPartial never transfers to the panel a payload whose length *)
(* differs from ceil(width/8)*height: whatever buffer it is called with,   *)
(* every byte list written to panel RAM during the call has that length.   *)
C11_PayloadLength ==
    HardwareCall("displayPartial") =>
        \A p \in RamWrites(log, \H24) : p.len = FrameBytes

(* what the panel received during the call: commands and data *)
SentToPanel == SelectSeq(log, LAMBDA e : e.k \in {"cmd", "data"})

(* C12: displayPartial writes to panel RAM only when the driver is in      *)
(* PartialReady (its last init was init(Partial), and neither sleep nor    *)
(* shutdown followed); called in Uninitialized, FullReady, Asleep or       *)
(* Closed it sends nothing to the panel.                                   *)
C12_PartialOnlyWhenReady ==
    (drv = "V3" /\ call = "displayPartial" /\ phase # "PartialReady") =>
        SentToPanel = << >>

(* C15: module_exit is idempotent: every call of it, the first and any     *)
(* later one, in hardware or mock mode, returns without raising.           *)
C15_ExitIdempotent ==
    (drv = "V3" /\ call = "module_exit") => ret \in {"pending", "None"}

(* in hardware mode a module_exit after an earlier one that closed the SPI *)
(* handle and released the GPIO channels has hit a failure and returned    *)
C15_Witness ==
    /\ HardwareCall("module_exit") /\ ret = "None"
    /\ phase = "Closed" /\ spi = "closed" /\ gpio = "cleaned"
    /\ HasFailed

(***************************************************************************)
(* Claims about both drivers, checked under SpecDrivers.                   *)
(***************************************************************************)

(* C13: for EPD (V3) and GT1151, once the constructor has returned the     *)
(* transport mode never changes: no step of a public operation, failed     *)
(* transport calls included, changes mock_mode.                            *)
C13_ModeFixed ==
    [][ /\ call # "__init__" => mock_mode' = mock_mode
        /\ g_call # "__init__" => g_mock' = g_mock ]_vars

(* a displayPartial of a hardware-mode EPD has ended by a transport        *)
(* failure, and the driver is still in hardware mode                       *)
C13_Witness ==
    /\ HardwareCall("displayPartial") /\ ret = "raised"
    /\ HasFailed /\ Len(log) > 1

(* the probes of the constructor, in order *)
Probes == SelectSeq(g_log, LAMBDA e : e.k = "probe")

(* an operation of the GT1151 constructor failed for good: the bus did not *)
(* open, the GPIO setup raised, or neither address answered                *)
GtFailure ==
    \/ \E i \in 1..Len(g_log) : g_log[i].k \in {"open", "gpio"} /\ ~g_log[i].ok
    \/ Len(Probes) = 2 /\ ~Probes[2].ok

(* C14: constructing EPD (V3) or GT1151 never raises, for every requested  *)
(* mode and every hardware failure; any failure, and a forced mock mode,   *)
(* ends construction in Mock mode; GT1151 probes 0x5D first, then 0x14     *)
(* only if 0x5D failed, and ends in Hardware mode only if one of them      *)
(* answered, with i2c_addr the address that answered.                      *)
C14_ConstructNeverRaises ==
    /\ (drv = "V3" /\ call = "__init__") =>
          /\ ret \in {"pending", "None"}
          /\ (ret = "None" /\ ~mock_mode) =>
                /\ HW_AVAILABLE /\ arg.n # 1
                /\ gpio = "setup" /\ spi = "open"
    /\ g_call = "__init__" =>
          /\ g_ret.st \in {"pending", "returned"}
          /\ Len(Probes) <= 2
          /\ Len(Probes) >= 1 => Probes[1].a = \H5D
          /\ Len(Probes) = 2 => (Probes[2].a = \H14 /\ ~Probes[1].ok)
          /\ (g_ret.st = "returned" /\ GtFailure) => g_mock
          /\ (g_ret.st = "returned" /\ ~g_mock) =>
                /\ GT_HW_AVAILABLE /\ g_arg # 1
                /\ bus = "open"
                /\ Len(Probes) >= 1
                /\ Probes[Len(Probes)].ok
                /\ Probes[Len(Probes)].a = i2c_addr

(* a GT1151 has been built in hardware mode at the alternative address, *)
(* after the primary address failed to answer                           *)
C14_Witness ==
    /\ g_call = "__init__" /\ g_ret.st = "returned" /\ ~g_mock
    /\ i2c_addr = \H14
    /\ Len(Probes) = 2 /\ ~Probes[1].ok /\ Probes[2].ok

(***************************************************************************)
(* Claims about the touch controller driver, checked under SpecGT.         *)
(***************************************************************************)
InRead == g_call \in {"read_touch", "scan"}

(* the reads of point data the call has issued *)
DataReads == SelectSeq(g_log, LAMBDA e : e.k = "read" /\ e.a = POINT1_REG)

(* a register read of the call failed *)
ReadFailed == \E i \in 1..Len(g_log) : g_log[i].k = "read" /\ ~g_log[i].ok

(* C16: for every value of the point-info byte, read_touch returns and     *)
(* stores a touch count in 0..5, and it reads point data only when the     *)
(* low nibble (touch_count) is in 1..5, eight bytes a point: with a low    *)
(* nibble of 6..15 it returns 0, stores 0 and issues no point-data read.   *)
C16_CountInRange ==
    /\ gt_dev.Touch \in 0..5
    /\ InRead =>
          /\ g_ret.st = "returned" => g_ret.n \in 0..5
          /\ (g_ret.st = "returned" /\ ~ReadFailed) => g_ret.n = gt_dev.Touch
          /\ Len(DataReads) <= 1
          /\ Len(DataReads) = 1 =>
                /\ touch_count \in 1..5
                /\ DataReads[1].len = 8 * touch_count
          /\ (touch_count \in 6..15 /\ g_ret.st = "returned") =>
                (g_ret.n = 0 /\ gt_dev.Touch = 0 /\ DataReads = << >>)

(* with touches in the frame, a read_touch has met a low nibble of 6..15 *)
(* and returned                                                          *)
C16_Witness ==
    /\ InRead /\ ~g_mock /\ g_ret.st = "returned"
    /\ touch_count \in 6..15
    /\ g_before.Touch > 0
    /\ Len(g_log) = 1

(* C18: after scan(), gt_old holds the touch count and the coordinates of  *)
(* every point that gt_dev held immediately before the call.               *)
C18_OldIsCopy ==
    (g_call = "scan" /\ g_ret.st = "returned") =>
        /\ gt_old.Touch = g_before.Touch
        /\ \A i \in Points :
             i < g_before.Touch =>
               (gt_old.X[i] = g_before.X[i] /\ gt_old.Y[i] = g_before.Y[i])

(* C19: if a register read fails during read_touch, the cycle is reported  *)
(* as no touch: read_touch returns 0, the current frame's touch count is 0 *)
(* afterwards and get_point() answers is_touched = False, whatever the     *)
(* frame held before.                                                      *)
C19_FailedReadIsNoTouch ==
    (InRead /\ g_ret.st = "returned" /\ ReadFailed) =>
        /\ g_ret.n = 0
        /\ gt_dev.Touch = 0
        /\ ~PointOf(gt_dev).touched

(***************************************************************************)
(* Claims about the coordinate mapping, checked under SpecMap.             *)
(***************************************************************************)
Mapped(c) == g_call = c /\ g_ret.st = "returned"

(* the mapping of call c is non-decreasing up to the raw value mapped *)
MonotonicTo(c) ==
    \A r \in 0..g_arg :
        (IF c = "_map_x" THEN map_x(r) ELSE map_y(r)) <= g_ret.n

C20_FactorySelects ==
    f_out # NoHandler =>
        LET supplied == f_in.gt # None /\ f_in.gt_dev # None
        IN  /\ f_out.kind = "touch" <=> supplied
            /\ ~supplied =>
                  /\ f_out.kind = "button"
                  /\ f_out.pin = IF f_in.gpio_pin # None THEN f_in.gpio_pin ELSE 3

(***************************************************************************)
(* Further claims about the e-paper driver, checked under SpecEPD.         *)
(***************************************************************************)

(* C21: in mock mode every display operation (init, Clear, displayPartial, *)
(* displayPartBaseImage, sleep, module_exit) completes without any SPI or  *)
(* GPIO access: it only sleeps and returns its normal value, it never      *)
(* polls the busy line, so no wait of it can reach the timeout, and it     *)
(* leaves the lines and the handles as they were.                          *)
C21_MockNoTransport ==
    (drv = "V3" /\ mock_mode /\ call \notin {"idle", "__init__"}) =>
        /\ log = << >>
        /\ w_pc = "none" /\ w_elapsed = 0
        /\ dc = 0 /\ cs = 0
        /\ spi \in {"unset", "None"}
        /\ gpio \in {"unset", "setup"}
        /\ ret \in {"pending", IF call = "init" THEN "0" ELSE "None"}
        /\ ret = "pending" => Cur.op \in {"sleep", "return"}

(* displayPartBaseImage has returned on a driver that fell back to mock    *)
(* mode with its GPIO channels set up (the SPI device failed to open)      *)
C21_Witness ==
    /\ drv = "V3" /\ mock_mode /\ gpio = "setup"
    /\ call = "displayPartBaseImage" /\ arg.buf.len = 4000 /\ ret = "None"

(* C22: a transport failure (an exception from an SPI or GPIO write)       *)
(* during Clear, displayPartial, displayPartBaseImage or sleep is not      *)
(* propagated to the caller: the operation returns.                        *)
C22_FailureContained ==
    (drv = "V3"
       /\ call \in {"Clear", "displayPartial", "displayPartBaseImage", "sleep"})
      => ret # "raised"

(* C29: the byte list Clear writes to panel RAM has the FrameBuffer length *)
(* ceil(width/8)*height (4000 for the 122x250 panel), the length           *)
(* displayPartial and displayPartBaseImage transfer.                       *)
C29_ClearFillsFrame ==
    (HardwareCall("Clear") /\ ret = "None") =>
        /\ RamWrites(log, \H24) # {}
        /\ \A p \in RamWrites(log, \H24) : p.len = FrameBytes

(***************************************************************************)
(* Claim about the V4 adapter, checked under SpecV4.                       *)
(***************************************************************************)
InReadBusy == InCall /\ Cur.op = "readbusy"

(* C24: ReadBusy of the V4 driver returns after a bounded number of polls  *)
(* even if the busy line never reports idle: a call that has entered       *)
(* ReadBusy eventually leaves it.                                          *)
C24_ReadBusyReturns == InReadBusy ~> ~InReadBusy

(***************************************************************************)
(* Further claims about the input handlers, checked under SpecInput.       *)
(***************************************************************************)

(* C25: after any sequence of start() and stop() calls on one handler,     *)
(* including a stop() whose join timed out followed by start(), at most    *)
(* one polling thread of the handler is alive, and on_long_press is        *)
(* invoked at most once per press.                                         *)
C25_OnePoller ==
    /\ Cardinality({i \in Threads : Alive(i)}) <= 1
    /\ Cardinality({i \in Threads : TAlive(i)}) <= 1
    /\ n_long <= 1

(* C26: while a handler is running, its long-press monitor thread never    *)
(* terminates: under every interleaving of the release edge with the       *)
(* monitor's check and use of the press start time, no error escapes the   *)
(* monitor loop, in ButtonInputHandler._monitor_long_press and in          *)
(* menu_button.monitor_button_hold.                                        *)
C26_MonitorSurvives ==
    /\ \A i \in Threads : m_pc[i] # "crashed"
    /\ hold_pc # "crashed"

(* C27: while the handler is running with both callbacks set, every        *)
(* completed press-release cycle has dispatched exactly one callback,      *)
(* whatever the press duration.                                            *)
C27_EveryCycleDispatches ==
    (CycleObserved /\ cyc_phase = "released") => n_short + n_long = 1

(* C28: a ButtonInputHandler dispatches callbacks only while Running: when *)
(* is_active is false, before the first start() and after stop(), neither  *)
(* on_short_press nor on_long_press is entered.                            *)
C28_DispatchOnlyRunning ==
    [][ /\ (e_pc = "r_latch" /\ e_pc' = "r_incb") => is_active
        /\ \A i \in Threads :
              (m_pc[i] = "call" /\ m_pc'[i] = "incb") => is_active
      ]_vars

(***************************************************************************)
(* Claims about the button menu application, checked under SpecMenu.       *)
(***************************************************************************)

(* C23: display-driver operations are issued by one thread at a time: the  *)
(* release callback's epd.displayPartial never overlaps a display          *)
(* operation (init, Clear, displayPartBaseImage) running on the main       *)
(* thread.                                                                 *)
C23_OneDisplayWriter == ~(edge_pc = "r_draw" /\ main_pc \in MainDraws)

(* C30: whenever the main loop launches an app, the app it launches is the *)
(* one that was selected when the monitor thread detected the hold; no app *)
(* is launched from a stale or initial launch_app_index.                   *)
C30_LaunchesSelected ==
    app_to_launch # None =>
        /\ launch_app_index \in Apps
        /\ app_to_launch = detected_selection

====
